---- MODULE Spec2Model ----
(***************************************************************************)
(* Model of the web-style search expression parser of mygram-client        *)
(* (src/src/search_expression.cpp): the byte-wise Tokenizer, the           *)
(* recursive-descent Parser, SearchExpression::ToQueryString and the       *)
(* entry point ParseSearchExpression / ConvertSearchExpression.            *)
(*                                                                         *)
(* A std::string is a sequence of bytes; a byte is written as a one-       *)
(* character string, the bytes of U+3000 as "E3", "80", "80".  Positions   *)
(* are 0-based as in the source, so byte pos of str is str[pos + 1].       *)
(***************************************************************************)
EXTENDS Integers, Sequences, FiniteSets, TLC

VARIABLES input, pc, pos, current, last_pos, expr, err, query

\* The result of HasComplexExpression and the result and output parameters
\* of SimplifySearchExpression.
VARIABLES has_complex, simplified, main_term, and_terms, not_terms

\* string_utils: the arguments (text, n and the two sizes), the decoded
\* codepoints, the codepoint windows built (ngram_codepoints, one per n-gram
\* pushed) and the results.
VARIABLES arg_text, arg_n, ascii_ngram_size, kanji_ngram_size, codepoints, encoded,
          ngram_codepoints, ngrams, thrown

\* MygramClient: the socket descriptor (sock_), the two directions of the
\* TCP stream, whether the server has closed it, the last call of Connect or
\* Disconnect with the message of the error it returned ("" when it returned
\* none) and the SendCommand calls of the threads that share the client.
VARIABLES sock_, outgoing, incoming, peer_closed, last_call, calls

parserVars == <<input, pc, pos, current, last_pos, expr, err, query>>

callVars == <<has_complex, simplified, main_term, and_terms, not_terms>>

utilVars ==
    <<arg_text, arg_n, ascii_ngram_size, kanji_ngram_size, codepoints, encoded,
      ngram_codepoints, ngrams, thrown>>

clientVars == <<sock_, outgoing, incoming, peer_closed, last_call, calls>>

vars == <<parserVars, callVars, utilVars, clientVars>>

\* The parts of the state a call does not use are left as constructed.
NoParser ==
    /\ input = <<>>
    /\ pos = 0
    /\ current = [type |-> "End", value |-> <<>>]
    /\ last_pos = 0
    /\ expr = [required_terms |-> <<>>, excluded_terms |-> <<>>,
               optional_terms |-> <<>>, raw_expression |-> <<>>]
    /\ err = ""
    /\ query = <<>>

NoCall ==
    /\ has_complex = FALSE
    /\ simplified = FALSE
    /\ main_term = <<>>
    /\ and_terms = <<>>
    /\ not_terms = <<>>

NoUtil ==
    /\ arg_text = <<>>
    /\ arg_n = 0
    /\ ascii_ngram_size = 0
    /\ kanji_ngram_size = 0
    /\ codepoints = <<>>
    /\ encoded = <<>>
    /\ ngram_codepoints = <<>>
    /\ ngrams = <<>>
    /\ thrown = ""

NoClient ==
    /\ sock_ = -1
    /\ outgoing = <<>>
    /\ incoming = <<>>
    /\ peer_closed = FALSE
    /\ last_call = [op |-> "none", error |-> ""]
    /\ calls = <<>>

(***************************************************************************)
(* Bounds of the model.                                                    *)
(***************************************************************************)
MaxChunks == 4

MaxPieces == 4

MaxGroup == 2

MaxTerms == 2

MaxLex == 4

(***************************************************************************)
(* Byte classes (std::isspace / std::isalnum in the "C" locale).           *)
(***************************************************************************)
IsSpace(c) == c \in {" ", "\t", "\n", "\r"}

AlnumBytes ==
    { "a", "b", "c", "d", "e", "f", "g", "h", "i", "j", "k", "l", "m",
      "n", "o", "p", "q", "r", "s", "t", "u", "v", "w", "x", "y", "z",
      "A", "B", "C", "D", "E", "F", "G", "H", "I", "J", "K", "L", "M",
      "N", "O", "P", "Q", "R", "S", "T", "U", "V", "W", "X", "Y", "Z",
      "0", "1", "2", "3", "4", "5", "6", "7", "8", "9" }

IsAlnum(c) == c \in AlnumBytes

\* Mutant: a full-width space that ends the string is not recognised.
IsFullWidthSpace_Short(str, p) ==
    IF p + 3 >= Len(str)
    THEN FALSE
    ELSE str[p + 1] = "E3" /\ str[p + 2] = "80" /\ str[p + 3] = "80"

IsFullWidthSpace(str, p) ==
    IF p + 2 >= Len(str)
    THEN FALSE
    ELSE str[p + 1] = "E3" /\ str[p + 2] = "80" /\ str[p + 3] = "80"

(***************************************************************************)
(* Token                                                                   *)
(***************************************************************************)
Token(type, value) == [type |-> type, value |-> value]

(***************************************************************************)
(* Tokenizer                                                               *)
(***************************************************************************)
RECURSIVE SkipWhitespace(_, _)
SkipWhitespace(str, p) ==
    IF p < Len(str)
    THEN IF IsFullWidthSpace(str, p)
         THEN SkipWhitespace(str, p + 3)
         ELSE IF IsSpace(str[p + 1])
              THEN SkipWhitespace(str, p + 1)
              ELSE p
    ELSE p

IsTermStop(c) == IsSpace(c) \/ c \in {"+", "-", "(", ")", "\""}

RECURSIVE ReadTermFrom(_, _, _)
ReadTermFrom(str, p, term) ==
    IF p < Len(str)
    THEN IF IsFullWidthSpace(str, p) \/ IsTermStop(str[p + 1])
         THEN [value |-> term, pos |-> p]
         ELSE ReadTermFrom(str, p + 1, Append(term, str[p + 1]))
    ELSE [value |-> term, pos |-> p]

ReadTerm(str, p) == ReadTermFrom(str, p, <<>>)

RECURSIVE ReadQuotedFrom(_, _, _)
ReadQuotedFrom(str, p, term) ==
    IF p < Len(str)
    THEN IF str[p + 1] = "\""
         THEN [value |-> term, pos |-> p + 1]
         ELSE IF str[p + 1] = "\\" /\ p + 1 < Len(str)
              THEN ReadQuotedFrom(str, p + 2, Append(term, str[p + 2]))
              ELSE ReadQuotedFrom(str, p + 1, Append(term, str[p + 1]))
    ELSE [value |-> term, pos |-> p]

ReadQuotedString(str, p) ==
    IF p >= Len(str) \/ str[p + 1] # "\""
    THEN [value |-> <<>>, pos |-> p]
    ELSE ReadQuotedFrom(str, p + 1, <<>>)

\* Mutant: the byte after the two letters is not looked at.
IsWholeWordOr_Prefix(str, p) ==
    /\ p + 2 <= Len(str)
    /\ str[p + 1] = "O" /\ str[p + 2] = "R"
    /\ ~(p > 0 /\ IsAlnum(str[p]))

IsWholeWordOr(str, p) ==
    /\ p + 2 <= Len(str)
    /\ str[p + 1] = "O" /\ str[p + 2] = "R"
    /\ ~(p > 0 /\ IsAlnum(str[p]))
    /\ ~(p + 2 < Len(str) /\ IsAlnum(str[p + 3]))

\* Tokenizer::Next: the token at the cursor and the cursor after it.
TokNext(str, p0) ==
    LET p == SkipWhitespace(str, p0) IN
    IF p >= Len(str)
    THEN [tok |-> Token("End", <<>>), pos |-> p]
    ELSE LET c == str[p + 1] IN
         IF c = "\""
         THEN LET q == ReadQuotedString(str, p)
              IN  [tok |-> Token("QuotedTerm", q.value), pos |-> q.pos]
         ELSE IF c = "+" THEN [tok |-> Token("Plus", <<>>), pos |-> p + 1]
         ELSE IF c = "-" THEN [tok |-> Token("Minus", <<>>), pos |-> p + 1]
         ELSE IF c = "(" THEN [tok |-> Token("LParen", <<>>), pos |-> p + 1]
         ELSE IF c = ")" THEN [tok |-> Token("RParen", <<>>), pos |-> p + 1]
         ELSE IF IsWholeWordOr(str, p)
              THEN [tok |-> Token("Or", <<"O", "R">>), pos |-> p + 2]
              ELSE LET t == ReadTerm(str, p)
                   IN  [tok |-> Token("Term", t.value), pos |-> t.pos]

(***************************************************************************)
(* Parser.  A parser state is the record of its members                    *)
(* [pos (tokenizer_.pos_), current (current_), last_pos (last_pos_)].      *)
(***************************************************************************)
PState(p, cur, lp) == [pos |-> p, current |-> cur, last_pos |-> lp]

\* Advance(): last_pos_ = tokenizer_.GetPosition(); current_ = tokenizer_.Next().
\* q is the one value of ps, so that a caller's expression is evaluated once.
Advance(str, ps) ==
    CHOOSE a \in { LET n == TokNext(str, q.pos)
                   IN  PState(n.pos, n.tok, q.pos) : q \in {ps} } : TRUE

\* Mutant: the value is stored without the quote characters.
Quoted_Bare(value) == value

Quoted(value) == <<"\"">> \o value \o <<"\"">>

\* The text a term or quoted-term token is stored as.
TermText(tok) == IF tok.type = "QuotedTerm" THEN Quoted(tok.value) ELSE tok.value

OrSep == <<" ", "O", "R", " ">>

\* The do-while loop of CaptureParenExpression.
RECURSIVE CaptureParenLoop(_, _, _, _)
CaptureParenLoop(str, ps, depth, oss) ==
    LET t == ps.current.type IN
    IF t = "End"
    THEN [text |-> <<>>, ps |-> ps]
    ELSE LET d == IF t = "LParen" THEN depth + 1
                  ELSE IF t = "RParen" THEN depth - 1 ELSE depth
             o == IF t = "LParen" THEN oss \o <<"(">>
                  ELSE IF t = "RParen" THEN oss \o <<")">>
                  ELSE IF t = "Term" THEN oss \o ps.current.value
                  ELSE IF t = "QuotedTerm" THEN oss \o Quoted(ps.current.value)
                  ELSE IF t = "Or" THEN oss \o OrSep
                  ELSE IF t = "Plus" THEN oss \o <<"+">>
                  ELSE oss \o <<"-">>
         IN  IF d > 0
             THEN CaptureParenLoop(str, Advance(str, ps), d, o)
             ELSE [text |-> o, ps |-> Advance(str, ps)]

CaptureParenExpression(str, ps) ==
    IF ps.current.type # "LParen"
    THEN [text |-> <<>>, ps |-> ps]
    ELSE CaptureParenLoop(str, ps, 0, <<>>)

\* The while loop of CaptureOrExpression.
RECURSIVE CaptureOrLoop(_, _, _)
CaptureOrLoop(str, ps, oss) ==
    IF ps.current.type # "Or"
    THEN [text |-> oss, ps |-> ps]
    ELSE LET a == Advance(str, ps)
             o == oss \o OrSep
         IN  IF a.current.type \in {"Term", "QuotedTerm"}
             THEN CaptureOrLoop(str, Advance(str, a), o \o TermText(a.current))
             ELSE IF a.current.type = "LParen"
                  THEN LET g == CaptureParenExpression(str, a)
                       IN  IF g.text = <<>>
                           THEN [text |-> <<>>, ps |-> g.ps]
                           ELSE CaptureOrLoop(str, g.ps, o \o g.text)
                  ELSE [text |-> <<>>, ps |-> a]

CaptureOrExpression(str, ps) ==
    CaptureOrLoop(str, Advance(str, ps), TermText(ps.current))

\* has_or, and the parser state as LooksLikeOrExpression leaves it.
LooksLikeOrExpression(str, ps) ==
    LET saved_pos == ps.pos
        saved_current == ps.current
        a == Advance(str, ps)
    IN  [has_or |-> a.current.type = "Or",
         ps |-> PState(saved_pos, saved_current, a.last_pos)]

\* std::optional<std::string>: ok is has_value().
ParsePrefixedTerm(str, ps) ==
    IF ps.current.type = "LParen"
    THEN LET g == CaptureParenExpression(str, ps)
         IN  [ok |-> g.text # <<>>, text |-> g.text, ps |-> g.ps]
    ELSE IF ps.current.type \in {"Term", "QuotedTerm"}
         THEN [ok |-> TRUE, text |-> TermText(ps.current), ps |-> Advance(str, ps)]
         ELSE [ok |-> FALSE, text |-> <<>>, ps |-> ps]

(***************************************************************************)
(* SearchExpression                                                        *)
(***************************************************************************)
EmptyExpr ==
    [required_terms |-> <<>>, excluded_terms |-> <<>>,
     optional_terms |-> <<>>, raw_expression |-> <<>>]

AndSep == <<" ", "A", "N", "D", " ">>

NotPrefix == <<"N", "O", "T", " ">>

\* The first loop of ToQueryString, over required_terms.
RECURSIVE EmitRequired(_, _, _)
EmitRequired(terms, i, oss) ==
    IF i > Len(terms)
    THEN oss
    ELSE EmitRequired(terms, i + 1,
                      (IF i > 1 THEN oss \o AndSep ELSE oss) \o terms[i])

\* Mutant: the separator is written before every excluded term.
RECURSIVE EmitExcluded_AlwaysAnd(_, _, _)
EmitExcluded_AlwaysAnd(terms, i, oss) ==
    IF i > Len(terms)
    THEN oss
    ELSE EmitExcluded_AlwaysAnd(terms, i + 1, oss \o AndSep \o NotPrefix \o terms[i])

\* The second loop of ToQueryString, over excluded_terms.
RECURSIVE EmitExcluded(_, _, _)
EmitExcluded(terms, i, oss) ==
    IF i > Len(terms)
    THEN oss
    ELSE EmitExcluded(terms, i + 1,
                      (IF oss # <<>> THEN oss \o AndSep ELSE oss)
                          \o NotPrefix \o terms[i])

EmitRaw(raw, oss) ==
    IF raw # <<>>
    THEN (IF oss # <<>> THEN oss \o AndSep ELSE oss) \o <<"(">> \o raw \o <<")">>
    ELSE oss

\* Mutant: optional terms are emitted, joined with OR, when there are no
\* required terms.
RECURSIVE EmitOptional(_, _, _)
EmitOptional(terms, i, oss) ==
    IF i > Len(terms)
    THEN oss
    ELSE EmitOptional(terms, i + 1, (IF i > 1 THEN oss \o OrSep ELSE oss) \o terms[i])

ToQueryString_Optional(e) ==
    EmitRaw(e.raw_expression,
            EmitExcluded(e.excluded_terms, 1,
                         IF e.required_terms = <<>>
                         THEN EmitOptional(e.optional_terms, 1, <<>>)
                         ELSE EmitRequired(e.required_terms, 1, <<>>)))

ToQueryString(e) ==
    EmitRaw(e.raw_expression,
            EmitExcluded(e.excluded_terms, 1,
                         EmitRequired(e.required_terms, 1, <<>>)))

AppendRaw(raw, text) == (IF raw # <<>> THEN raw \o <<" ">> ELSE raw) \o text

(***************************************************************************)
(* Parser::Parse.  Each branch of the top-level loop is an operator from   *)
(* the parser state and the expression built so far to the outcome of one  *)
(* iteration: pc is "parsing" (the loop goes on) or "error" (Parse         *)
(* returned MakeUnexpected with the message err).                          *)
(***************************************************************************)
Continue(ps, e) == [pc |-> "parsing", ps |-> ps, expr |-> e, err |-> ""]

SyntaxError(ps, e, message) == [pc |-> "error", ps |-> ps, expr |-> e, err |-> message]

\* Mutant: a group after '+' is appended to raw_expression.
PlusBranch_GroupToRaw(str, ps, e) ==
    LET a == Advance(str, ps)
        t == ParsePrefixedTerm(str, a)
    IN  IF t.ok
        THEN IF a.current.type = "LParen"
             THEN Continue(t.ps, [e EXCEPT !.raw_expression = AppendRaw(@, t.text)])
             ELSE Continue(t.ps, [e EXCEPT !.required_terms = Append(@, t.text)])
        ELSE SyntaxError(t.ps, e, "Expected term after '+'")

PlusBranch(str, ps, e) ==
    LET t == ParsePrefixedTerm(str, Advance(str, ps))
    IN  IF t.ok
        THEN Continue(t.ps, [e EXCEPT !.required_terms = Append(@, t.text)])
        ELSE SyntaxError(t.ps, e, "Expected term after '+'")

\* Mutant: the term after '-' is appended to required_terms.
MinusBranch_Required(str, ps, e) ==
    LET t == ParsePrefixedTerm(str, Advance(str, ps))
    IN  IF t.ok
        THEN Continue(t.ps, [e EXCEPT !.required_terms = Append(@, t.text)])
        ELSE SyntaxError(t.ps, e, "Expected term after '-'")

MinusBranch(str, ps, e) ==
    LET t == ParsePrefixedTerm(str, Advance(str, ps))
    IN  IF t.ok
        THEN Continue(t.ps, [e EXCEPT !.excluded_terms = Append(@, t.text)])
        ELSE SyntaxError(t.ps, e, "Expected term after '-'")

LParenBranch(str, ps, e) ==
    LET g == CaptureParenExpression(str, ps)
    IN  IF g.text = <<>>
        THEN SyntaxError(g.ps, e, "Unbalanced parentheses")
        ELSE Continue(g.ps, [e EXCEPT !.raw_expression = AppendRaw(@, g.text)])

\* Mutant: an unprefixed term is appended to optional_terms.
TermBranch_Optional(str, ps, e) ==
    LET l == LooksLikeOrExpression(str, ps)
    IN  IF l.has_or
        THEN LET o == CaptureOrExpression(str, l.ps)
             IN  Continue(o.ps, [e EXCEPT !.raw_expression = AppendRaw(@, o.text)])
        ELSE Continue(Advance(str, l.ps),
                      [e EXCEPT !.optional_terms = Append(@, TermText(l.ps.current))])

TermBranch(str, ps, e) ==
    LET l == LooksLikeOrExpression(str, ps)
    IN  IF l.has_or
        THEN LET o == CaptureOrExpression(str, l.ps)
             IN  Continue(o.ps, [e EXCEPT !.raw_expression = AppendRaw(@, o.text)])
        ELSE Continue(Advance(str, l.ps),
                      [e EXCEPT !.required_terms = Append(@, TermText(l.ps.current))])

\* Mutant: a stray OR is neither consumed nor reported.
OrBranch_Stay(str, ps, e) == Continue(ps, e)

OrBranch(str, ps, e) == SyntaxError(ps, e, "Unexpected 'OR' operator")

\* Mutant: a stray ')' is skipped.
RParenBranch_Skip(str, ps, e) == Continue(Advance(str, ps), e)

RParenBranch(str, ps, e) == SyntaxError(ps, e, "Unexpected ')'")

LoopBody(str, ps, e) ==
    LET t == ps.current.type IN
    IF t = "Plus" THEN PlusBranch(str, ps, e)
    ELSE IF t = "Minus" THEN MinusBranch(str, ps, e)
    ELSE IF t = "LParen" THEN LParenBranch(str, ps, e)
    ELSE IF t \in {"Term", "QuotedTerm"} THEN TermBranch(str, ps, e)
    ELSE IF t = "Or" THEN OrBranch(str, ps, e)
    ELSE RParenBranch(str, ps, e)

\* Parse() run to its return: [ok, expr, err].
RECURSIVE ParseLoop(_, _, _)
\* After one iteration, which left r: the error return or the next iteration.
ParseNext(str, r) ==
    IF r.pc = "error"
    THEN [ok |-> FALSE, expr |-> EmptyExpr, err |-> r.err]
    ELSE ParseLoop(str, r.ps, r.expr)

ParseLoop(str, ps, e) ==
    IF ps.current.type = "End"
    THEN [ok |-> TRUE, expr |-> e, err |-> ""]
    ELSE ParseNext(str, LoopBody(str, ps, e))

\* Mutant: a blank string counts as empty.
IsEmptyExpression_Blank(str) == SkipWhitespace(str, 0) >= Len(str)

IsEmptyExpression(str) == Len(str) = 0

NewParser(str) == Advance(str, PState(0, Token("End", <<>>), 0))

ParseSearchExpression(str) ==
    IF IsEmptyExpression(str)
    THEN [ok |-> FALSE, expr |-> EmptyExpr, err |-> "Empty search expression"]
    ELSE ParseLoop(str, NewParser(str), EmptyExpr)

(***************************************************************************)
(* Inputs: expression strings a caller may pass.                           *)
(*   ByteInputs   every string of at most MaxChunks chunks, a chunk being  *)
(*                one byte, the keyword OR or the bytes of U+3000;         *)
(*   TokenInputs  every string of at most MaxPieces lexical pieces;        *)
(*   GroupChains  OR chains whose right operand is a group of at most      *)
(*                MaxGroup pieces, closed or left open;                    *)
(*   DocExamples  the examples of search_expression.h.                     *)
(***************************************************************************)
FullWidthSpace == <<"E3", "80", "80">>

Chunks ==
    { <<"a">>, <<"O", "R">>, <<" ">>, <<"+">>, <<"-">>, <<"(">>, <<")">>,
      <<"\"">>, <<"\\">>, FullWidthSpace }

Pieces ==
    { <<"a", " ">>, <<"b", " ">>, <<"O", "R", " ">>, <<"+">>, <<"-">>, <<"(">>, <<")">> }

RECURSIVE Concats(_, _)
Concats(S, n) ==
    IF n = 0
    THEN { <<>> }
    ELSE LET T == Concats(S, n - 1) IN T \cup { t \o c : t \in T, c \in S }

ByteInputs == Concats(Chunks, MaxChunks)

TokenInputs == Concats(Pieces, MaxPieces)

GroupChains ==
    { <<"a", " ", "O", "R", " ", "(">> \o body \o rest :
        body \in Concats(Pieces, MaxGroup),
        rest \in { <<>>, <<")">>, <<")", " ", "b">>, <<")", " ", "O", "R", " ", "b">> } }

ExPlusBare == <<"+", "g", "o", "l", "a", "n", "g", " ", "t", "u", "t", "o", "r", "i", "a", "l">>

ExPlusMinus == <<"+", "g", "o", "l", "a", "n", "g", " ", "-", "o", "l", "d">>

ExOr == <<"p", "y", "t", "h", "o", "n", " ", "O", "R", " ", "r", "u", "b", "y">>

ExGroup ==
    <<"+", "g", "o", "l", "a", "n", "g", " ", "+", "(", "t", "u", "t", "o", "r", "i", "a", "l",
      " ", "O", "R", " ", "g", "u", "i", "d", "e", ")", " ", "-", "o", "l", "d">>

\* U+6A5F, U+3000, U+30C1
ExFullWidth == <<"E6", "A9", "9F", "E3", "80", "80", "E3", "83", "81">>

DocExamples == { ExPlusBare, ExPlusMinus, ExOr, ExGroup, ExFullWidth }

\* Quoted terms that hold a parenthesis, as the operand of an OR chain or
\* inside a group: a OR "(", a OR ")", a OR "\"(", ("(").
QuotedParens ==
    { <<"a", " ", "O", "R", " ", "\"", "(", "\"">>,
      <<"a", " ", "O", "R", " ", "\"", ")", "\"">>,
      <<"a", " ", "O", "R", " ", "\"", "\\", "\"", "(", "\"">>,
      <<"(", "\"", "(", "\"", ")">> }

\* The precedence examples: a b OR c, a OR b c.
ExAndThenOr == <<"a", " ", "b", " ", "O", "R", " ", "c">>

ExOrThenAnd == <<"a", " ", "O", "R", " ", "b", " ", "c">>

\* A bare term that contains the letters OR.
ExFortran == <<"F", "O", "R", "T", "R", "A", "N">>

\* OR chains that lack a right-hand operand: (a) b OR, a OR b c OR,
\* (a) b OR -c (d), python OR, a OR +b.
DanglingOrs ==
    { <<"(", "a", ")", " ", "b", " ", "O", "R">>,
      <<"a", " ", "O", "R", " ", "b", " ", "c", " ", "O", "R">>,
      <<"(", "a", ")", " ", "b", " ", "O", "R", " ", "-", "c", " ", "(", "d", ")">>,
      <<"p", "y", "t", "h", "o", "n", " ", "O", "R">>,
      <<"a", " ", "O", "R", " ", "+", "b">> }

Inputs ==
    ByteInputs \cup TokenInputs \cup GroupChains \cup DocExamples \cup QuotedParens
        \cup { ExAndThenOr, ExOrThenAnd, ExFortran } \cup DanglingOrs

(***************************************************************************)
(* SearchExpression values a caller may build directly (the struct is      *)
(* public): at most MaxTerms terms per list.                               *)
(***************************************************************************)
RECURSIVE SeqsUpTo(_, _)
SeqsUpTo(S, n) ==
    IF n = 0
    THEN { <<>> }
    ELSE LET T == SeqsUpTo(S, n - 1) IN T \cup { Append(t, x) : t \in T, x \in S }

TermValues == { <<"a">>, <<"b", "c">>, <<"\"", "d", " ", "e", "\"">> }

RawValues == { <<>>, <<"a", " ", "O", "R", " ", "b">>, <<"(", "a", ")">> }

Expressions ==
    { [required_terms |-> r, excluded_terms |-> x, optional_terms |-> o, raw_expression |-> w] :
        r \in SeqsUpTo(TermValues, MaxTerms), x \in SeqsUpTo(TermValues, MaxTerms),
        o \in SeqsUpTo(TermValues, 1), w \in RawValues }

(***************************************************************************)
(* State machine of one call.                                              *)
(*   pc = "start"    ParseSearchExpression(input) was called               *)
(*        "parsing"  at the head of the loop of Parser::Parse              *)
(*        "error"    the call returned an Error (message err)              *)
(*        "parsed"   a SearchExpression (expr) is held                     *)
(*        "done"     ToQueryString returned query                          *)
(***************************************************************************)
PS == PState(pos, current, last_pos)

SetPS(ps) ==
    /\ pos' = ps.pos
    /\ current' = ps.current
    /\ last_pos' = ps.last_pos

Take(r) ==
    /\ pc' = r.pc
    /\ SetPS(r.ps)
    /\ expr' = r.expr
    /\ err' = r.err

Init ==
    /\ input \in Inputs
    /\ pc = "start"
    /\ pos = 0
    /\ current = Token("End", <<>>)
    /\ last_pos = 0
    /\ expr = EmptyExpr
    /\ err = ""
    /\ query = <<>>
    /\ NoCall /\ NoUtil /\ NoClient

RejectEmpty ==
    /\ pc = "start"
    /\ IsEmptyExpression(input)
    /\ pc' = "error"
    /\ err' = "Empty search expression"
    /\ UNCHANGED <<input, pos, current, last_pos, expr, query>>
    /\ UNCHANGED <<callVars, utilVars, clientVars>>

ConstructParser ==
    /\ pc = "start"
    /\ ~IsEmptyExpression(input)
    /\ SetPS(NewParser(input))
    /\ pc' = "parsing"
    /\ UNCHANGED <<input, expr, err, query>>
    /\ UNCHANGED <<callVars, utilVars, clientVars>>

ParsePlus ==
    /\ pc = "parsing"
    /\ current.type = "Plus"
    /\ \E r \in { PlusBranch(input, PS, expr) } : Take(r)
    /\ UNCHANGED <<input, query>>
    /\ UNCHANGED <<callVars, utilVars, clientVars>>

ParseMinus ==
    /\ pc = "parsing"
    /\ current.type = "Minus"
    /\ \E r \in { MinusBranch(input, PS, expr) } : Take(r)
    /\ UNCHANGED <<input, query>>
    /\ UNCHANGED <<callVars, utilVars, clientVars>>

ParseLParen ==
    /\ pc = "parsing"
    /\ current.type = "LParen"
    /\ \E r \in { LParenBranch(input, PS, expr) } : Take(r)
    /\ UNCHANGED <<input, query>>
    /\ UNCHANGED <<callVars, utilVars, clientVars>>

ParseTerm ==
    /\ pc = "parsing"
    /\ current.type \in {"Term", "QuotedTerm"}
    /\ \E r \in { TermBranch(input, PS, expr) } : Take(r)
    /\ UNCHANGED <<input, query>>
    /\ UNCHANGED <<callVars, utilVars, clientVars>>

ParseOr ==
    /\ pc = "parsing"
    /\ current.type = "Or"
    /\ Take(OrBranch(input, PS, expr))
    /\ UNCHANGED <<input, query>>
    /\ UNCHANGED <<callVars, utilVars, clientVars>>

ParseRParen ==
    /\ pc = "parsing"
    /\ current.type = "RParen"
    /\ Take(RParenBranch(input, PS, expr))
    /\ UNCHANGED <<input, query>>
    /\ UNCHANGED <<callVars, utilVars, clientVars>>

\* The loop condition fails: Parse returns expr.
ParseReturn ==
    /\ pc = "parsing"
    /\ current.type = "End"
    /\ pc' = "parsed"
    /\ UNCHANGED <<input, pos, current, last_pos, expr, err, query>>
    /\ UNCHANGED <<callVars, utilVars, clientVars>>

\* ConvertSearchExpression: ToQueryString of the expression held.
ConvertToQueryString ==
    /\ pc = "parsed"
    /\ query' = ToQueryString(expr)
    /\ pc' = "done"
    /\ UNCHANGED <<input, pos, current, last_pos, expr, err>>
    /\ UNCHANGED <<callVars, utilVars, clientVars>>

Next ==
    \/ RejectEmpty
    \/ ConstructParser
    \/ ParsePlus
    \/ ParseMinus
    \/ ParseLParen
    \/ ParseTerm
    \/ ParseOr
    \/ ParseRParen
    \/ ParseReturn
    \/ ConvertToQueryString

Spec == Init /\ [][Next]_vars

(***************************************************************************)
(* ToQueryString on an expression the caller built.                        *)
(***************************************************************************)
InitEmit ==
    /\ input = <<>>
    /\ pc = "parsed"
    /\ pos = 0
    /\ current = Token("End", <<>>)
    /\ last_pos = 0
    /\ expr \in Expressions
    /\ err = ""
    /\ query = <<>>
    /\ NoCall /\ NoUtil /\ NoClient

NextEmit == ConvertToQueryString

SpecEmit == InitEmit /\ [][NextEmit]_vars

(***************************************************************************)
(* Definitions the properties are stated with.                             *)
(***************************************************************************)
Succeeded == pc \in {"parsed", "done"}

Failed == pc = "error"

\* The token stream of a string: Next() called until End.
RECURSIVE TokensFrom(_, _)
TokensFrom(str, p) ==
    LET n == TokNext(str, p)
    IN  IF n.tok.type = "End" THEN <<>> ELSE <<n.tok>> \o TokensFrom(str, n.pos)

Tokens(str) == TokensFrom(str, 0)

TokenTypes(str) == { Tokens(str)[i].type : i \in 1..Len(Tokens(str)) }

Bytes(str) == { str[i] : i \in 1..Len(str) }

RECURSIVE JoinWith(_, _)
JoinWith(parts, sep) ==
    IF parts = <<>> THEN <<>>
    ELSE IF Len(parts) = 1 THEN parts[1]
    ELSE parts[1] \o sep \o JoinWith(Tail(parts), sep)

\* The number of groups still open after the tokens toks[i..], d being open before.
RECURSIVE OpenGroups(_, _, _)
OpenGroups(toks, i, d) ==
    IF i > Len(toks) THEN d
    ELSE IF toks[i].type = "LParen" THEN OpenGroups(toks, i + 1, d + 1)
    ELSE IF toks[i].type = "RParen" /\ d > 0 THEN OpenGroups(toks, i + 1, d - 1)
    ELSE OpenGroups(toks, i + 1, d)

UnbalancedParentheses(str) == OpenGroups(Tokens(str), 1, 0) > 0

(***************************************************************************)
(* C1.  Unbalanced parentheses are always a syntax error: whenever a '('   *)
(* token is still open at the end of the input, ParseSearchExpression     *)
(* fails, wherever the group stands (top level, after '+' or '-', or as   *)
(* the right-hand operand of an OR chain).                                 *)
(***************************************************************************)
C1_UnbalancedIsSyntaxError == Succeeded => ~UnbalancedParentheses(input)

(***************************************************************************)
(* C2.  For an input made only of whitespace-separated bare terms and      *)
(* '+'-prefixed bare terms, a successful parse yields required_terms = the *)
(* terms in input order, excluded_terms and raw_expression empty, and the  *)
(* query string is the terms joined by " AND ".                            *)
(***************************************************************************)
\* The maximal runs of bytes other than ' ' and '+', in order.
RECURSIVE RunsFrom(_, _, _)
RunsFrom(str, i, run) ==
    IF i > Len(str)
    THEN IF run = <<>> THEN <<>> ELSE <<run>>
    ELSE IF str[i] \in {" ", "+"}
         THEN (IF run = <<>> THEN <<>> ELSE <<run>>) \o RunsFrom(str, i + 1, <<>>)
         ELSE RunsFrom(str, i + 1, Append(run, str[i]))

BareTerms(str) == RunsFrom(str, 1, <<>>)

IsPlainTermsInput(str) ==
    /\ Bytes(str) \subseteq AlnumBytes \cup {" ", "+"}
    /\ "Or" \notin TokenTypes(str)

RECURSIVE TermsByPrefix(_, _, _)
TermsByPrefix(toks, i, excluded) ==
    IF i > Len(toks) THEN <<>>
    ELSE IF /\ toks[i].type \in {"Term", "QuotedTerm"}
            /\ (i > 1 /\ toks[i - 1].type = "Minus") = excluded
         THEN <<TermText(toks[i])>> \o TermsByPrefix(toks, i + 1, excluded)
         ELSE TermsByPrefix(toks, i + 1, excluded)

NotClauses(terms) == [i \in 1..Len(terms) |-> NotPrefix \o terms[i]]

IsPrefixedTermsInput(str) == TokenTypes(str) \subseteq {"Term", "QuotedTerm", "Plus", "Minus"}

C3_MinusTermsAreExcluded ==
    (Succeeded /\ IsPrefixedTermsInput(input)) =>
        /\ expr.excluded_terms = TermsByPrefix(Tokens(input), 1, TRUE)
        /\ expr.required_terms = TermsByPrefix(Tokens(input), 1, FALSE)
        /\ (pc = "done" /\ expr.required_terms # <<>>) =>
               query = JoinWith(expr.required_terms \o NotClauses(expr.excluded_terms), AndSep)

C3_Witness ==
    /\ pc = "done"
    /\ input = ExPlusMinus
    /\ expr.required_terms = << <<"g", "o", "l", "a", "n", "g">> >>
    /\ expr.excluded_terms = << <<"o", "l", "d">> >>
    /\ query = <<"g", "o", "l", "a", "n", "g", " ", "A", "N", "D", " ",
                 "N", "O", "T", " ", "o", "l", "d">>

(***************************************************************************)
(* C4.  A top-level OR chain t1 OR t2 ... OR tk (each operand a bare or    *)
(* quoted term or, on the right of an OR, a balanced group) is appended    *)
(* to raw_expression as the text t1 OR t2 ... OR tk and none of its        *)
(* operands goes to required_terms; when the chain is the whole input the  *)
(* query string is that text in one pair of parentheses.  "The text" is    *)
(* read up to whitespace: it has the tokens of the chain as written, and   *)
(* for term operands it is the operands joined by " OR ".                  *)
(***************************************************************************)
\* The index of the ')' closing the group opened before toks[i], d groups
\* being open; 0 when there is none.
RECURSIVE CloseIndex(_, _, _)
CloseIndex(toks, i, d) ==
    IF i > Len(toks) THEN 0
    ELSE IF toks[i].type = "LParen" THEN CloseIndex(toks, i + 1, d + 1)
    ELSE IF toks[i].type = "RParen"
         THEN IF d = 1 THEN i ELSE CloseIndex(toks, i + 1, d - 1)
         ELSE CloseIndex(toks, i + 1, d)

\* toks[i..] is (OR operand)*.
RECURSIVE IsOrTail(_, _)
IsOrTail(toks, i) ==
    IF i > Len(toks) THEN TRUE
    ELSE IF toks[i].type # "Or" \/ i + 1 > Len(toks) THEN FALSE
    ELSE IF toks[i + 1].type \in {"Term", "QuotedTerm"} THEN IsOrTail(toks, i + 2)
    ELSE IF toks[i + 1].type = "LParen"
         THEN LET j == CloseIndex(toks, i + 2, 1)
              IN  j > 0 /\ IsOrTail(toks, j + 1)
         ELSE FALSE

IsOrChain(toks) ==
    /\ Len(toks) >= 3
    /\ toks[1].type \in {"Term", "QuotedTerm"}
    /\ toks[2].type = "Or"
    /\ IsOrTail(toks, 2)

\* The operands of a chain of terms, as stored.
ChainOperands(toks) == [k \in 1..((Len(toks) + 1) \div 2) |-> TermText(toks[2 * k - 1])]

C4_OrChainIsRawText ==
    (Succeeded /\ "\\" \notin Bytes(input) /\ IsOrChain(Tokens(input))) =>
        /\ expr.required_terms = <<>>
        /\ Tokens(expr.raw_expression) = Tokens(input)
        /\ TokenTypes(input) \subseteq {"Term", "QuotedTerm", "Or"} =>
               expr.raw_expression = JoinWith(ChainOperands(Tokens(input)), OrSep)
        /\ pc = "done" => query = <<"(">> \o expr.raw_expression \o <<")">>

(***************************************************************************)
(* C5.  A balanced group directly after a top-level '+' is appended to     *)
(* required_terms, one after '-' to excluded_terms, as its captured text   *)
(* from '(' to ')'; raw_expression and the other list are left unchanged.  *)
(***************************************************************************)
\* The 0-based position of the ')' matching the group open before byte p,
\* d groups being open, in a string without quotes; -1 when there is none.
RECURSIVE CloseByte(_, _, _)
CloseByte(str, p, d) ==
    IF p >= Len(str) THEN -1
    ELSE IF str[p + 1] = "(" THEN CloseByte(str, p + 1, d + 1)
    ELSE IF str[p + 1] = ")"
         THEN IF d = 1 THEN p ELSE CloseByte(str, p + 1, d - 1)
         ELSE CloseByte(str, p + 1, d)

IsNotSpace(c) == ~IsSpace(c)

StripSpaces(str) == SelectSeq(str, IsNotSpace)

\* The bytes of the group that starts at the cursor, from '(' to its ')'.
GroupSource(str, p) ==
    LET open == SkipWhitespace(str, p)
    IN  SubSeq(str, open + 1, CloseByte(str, open + 1, 1) + 1)

C5_Step ==
    (/\ pc = "parsing"
     /\ current.type \in {"Plus", "Minus"}
     /\ TokNext(input, pos).tok.type = "LParen"
     /\ CloseIndex(TokensFrom(input, pos), 2, 1) > 0) =>
        LET plus == current.type = "Plus"
            old == IF plus THEN expr.required_terms ELSE expr.excluded_terms
            new == IF plus THEN expr'.required_terms ELSE expr'.excluded_terms
        IN  /\ pc' = "parsing"
            /\ Len(new) = Len(old) + 1
            /\ SubSeq(new, 1, Len(old)) = old
            /\ LET group == new[Len(new)]
               IN  /\ Len(group) >= 2
                   /\ Head(group) = "(" /\ group[Len(group)] = ")"
                   /\ Bytes(input) \cap {"\"", "\\", "E3"} = {} =>
                          StripSpaces(group) = StripSpaces(GroupSource(input, pos))
            /\ plus => expr'.excluded_terms = expr.excluded_terms
            /\ ~plus => expr'.required_terms = expr.required_terms
            /\ expr'.raw_expression = expr.raw_expression

Contains(str, sub) ==
    \E i \in 0..(Len(str) - Len(sub)) : SubSeq(str, i + 1, i + Len(sub)) = sub

IsPrefix(pre, str) == Len(pre) <= Len(str) /\ SubSeq(str, 1, Len(pre)) = pre

C6_ExcludedAlwaysJoinedWithAnd ==
    pc = "done" =>
        \A i \in 1..Len(expr.excluded_terms) :
            Contains(query, AndSep \o NotPrefix \o expr.excluded_terms[i])

(***************************************************************************)
(* C6, amended.  Every excluded term e is emitted as "NOT e", joined with  *)
(* " AND " to what was emitted before it; the first excluded term of an    *)
(* expression without required terms is the first thing emitted and the    *)
(* query string then begins with "NOT e", without a separator.             *)
(***************************************************************************)
C6_ExcludedJoinedWhenAccumulatorNonEmpty ==
    pc = "done" =>
        \A i \in 1..Len(expr.excluded_terms) :
            IF i = 1 /\ expr.required_terms = <<>>
            THEN IsPrefix(NotPrefix \o expr.excluded_terms[i], query)
            ELSE Contains(query, AndSep \o NotPrefix \o expr.excluded_terms[i])

C6_Witness ==
    /\ pc = "done"
    /\ expr.required_terms = <<>>
    /\ expr.excluded_terms = << <<"a">>, <<"b">> >>
    /\ query = <<"N", "O", "T", " ", "a", " ", "A", "N", "D", " ", "N", "O", "T", " ", "b">>

(***************************************************************************)
(* C7.  ToQueryString depends on required_terms, excluded_terms and        *)
(* raw_expression only: the query string is the required terms, then a     *)
(* "NOT e" clause per excluded term, then raw_expression in one pair of    *)
(* parentheses, joined by " AND " in that order; it is empty when all      *)
(* three are empty; optional_terms does not change it.                     *)
(***************************************************************************)
QueryParts(e) ==
    e.required_terms \o NotClauses(e.excluded_terms)
        \o (IF e.raw_expression = <<>> THEN <<>>
            ELSE << <<"(">> \o e.raw_expression \o <<")">> >>)

EmptyExpressionError == Failed /\ err = "Empty search expression"

C8_EmptyIffZeroLength ==
    pc # "start" =>
        /\ EmptyExpressionError <=> Len(input) = 0
        /\ EmptyExpressionError => (pos = 0 /\ current = Token("End", <<>>))

C8_Witness == EmptyExpressionError /\ input = <<>>

(***************************************************************************)
(* C9.  At the top level a '+' or '-' not followed by a term, a quoted     *)
(* term or a group, an OR where an item is expected and a stray ')' each   *)
(* make the parse fail; none is skipped and a failure is final.            *)
(***************************************************************************)
MissingOperand ==
    /\ current.type \in {"Plus", "Minus"}
    /\ TokNext(input, pos).tok.type \notin {"Term", "QuotedTerm", "LParen"}

C9_Step ==
    /\ (pc = "parsing" /\ (MissingOperand \/ current.type \in {"Or", "RParen"})) =>
           (pc' = "error" /\ err' # "" /\ expr' = expr)
    /\ pc = "error" => pc' = "error"

\* toks[i..], read with d groups open, holds outside every group a '+' or
\* '-' without operand, a ')' that closes nothing, or an OR that follows
\* neither an operand nor a group.
RECURSIVE TopLevelOffence(_, _, _)
TopLevelOffence(toks, i, d) ==
    IF i > Len(toks) THEN FALSE
    ELSE LET t == toks[i].type IN
         IF d > 0
         THEN TopLevelOffence(toks, i + 1,
                              IF t = "LParen" THEN d + 1
                              ELSE IF t = "RParen" THEN d - 1 ELSE d)
         ELSE IF t = "RParen" THEN TRUE
         ELSE IF t = "LParen" THEN TopLevelOffence(toks, i + 1, 1)
         ELSE IF t \in {"Plus", "Minus"}
              THEN \/ i = Len(toks)
                   \/ toks[i + 1].type \notin {"Term", "QuotedTerm", "LParen"}
                   \/ TopLevelOffence(toks, i + 1, 0)
         ELSE IF t = "Or"
              THEN \/ i = 1
                   \/ toks[i - 1].type \notin {"Term", "QuotedTerm", "RParen"}
                   \/ TopLevelOffence(toks, i + 1, 0)
         ELSE TopLevelOffence(toks, i + 1, 0)

C9_TopLevelErrorsFail ==
    /\ [](Succeeded => ~TopLevelOffence(Tokens(input), 1, 0))
    /\ [][C9_Step]_vars

C9_Witness ==
    /\ Failed
    /\ err = "Expected term after '-'"
    /\ current.type = "Or"
    /\ TopLevelOffence(Tokens(input), 1, 0)

(***************************************************************************)
(* C10.  U+3000 (E3 80 80) separates like an ASCII space: replacing a      *)
(* space outside quotes by these three bytes changes neither the token     *)
(* sequence nor the result of ParseSearchExpression.                       *)
(***************************************************************************)
\* The positions (1-based) of the bytes of str[i..] outside quoted terms.
RECURSIVE OutsideQuotes(_, _, _)
OutsideQuotes(str, i, quoted) ==
    IF i > Len(str) THEN {}
    ELSE IF ~quoted
         THEN IF str[i] = "\"" THEN OutsideQuotes(str, i + 1, TRUE)
              ELSE {i} \cup OutsideQuotes(str, i + 1, FALSE)
         ELSE IF str[i] = "\"" THEN OutsideQuotes(str, i + 1, FALSE)
              ELSE IF str[i] = "\\" /\ i < Len(str) THEN OutsideQuotes(str, i + 2, TRUE)
              ELSE OutsideQuotes(str, i + 1, TRUE)

SeparatorSpaces(str) == { i \in OutsideQuotes(str, 1, FALSE) : str[i] = " " }

WithFullWidthSpace(str, i) ==
    SubSeq(str, 1, i - 1) \o FullWidthSpace \o SubSeq(str, i + 1, Len(str))

Returned ==
    [ok |-> Succeeded, expr |-> IF Succeeded THEN expr ELSE EmptyExpr, err |-> err]

C10_FullWidthSpaceSeparates ==
    pc \in {"error", "parsed", "done"} =>
        \A i \in SeparatorSpaces(input) :
            /\ Tokens(WithFullWidthSpace(input, i)) = Tokens(input)
            /\ ParseSearchExpression(WithFullWidthSpace(input, i)) = Returned

C10_Witness ==
    /\ pc = "done"
    /\ input = <<"a", " ", "b", " ">>
    /\ expr.required_terms = << <<"a">>, <<"b">> >>
    /\ ParseSearchExpression(<<"a", "E3", "80", "80", "b", " ">>).expr = expr
    /\ ParseSearchExpression(<<"a", " ", "b", "E3", "80", "80">>).expr = expr

(***************************************************************************)
(* C11.  After every successful ParseSearchExpression the parentheses of   *)
(* raw_expression are depth-balanced: scanning it from left to right, the  *)
(* number of ')' never exceeds the number of '(' and the two are equal at  *)
(* the end.                                                                *)
(***************************************************************************)
\* The depth after str[i..], d being the depth before; -1 once a ')' has
\* closed more than was open.
RECURSIVE ParenDepth(_, _, _)
ParenDepth(str, i, d) ==
    IF i > Len(str) THEN d
    ELSE IF str[i] = "(" THEN ParenDepth(str, i + 1, d + 1)
    ELSE IF str[i] = ")"
         THEN IF d = 0 THEN -1 ELSE ParenDepth(str, i + 1, d - 1)
         ELSE ParenDepth(str, i + 1, d)

DepthBalanced(str) == ParenDepth(str, 1, 0) = 0

C11_RawExpressionIsBalanced == Succeeded => DepthBalanced(expr.raw_expression)

(***************************************************************************)
(* C12.  The documented precedence holds for the emitted query: implicit   *)
(* AND binds tighter than OR, so a b OR c converts to a query that means   *)
(* (a AND b) OR c, and a OR b c to one that means a OR (b AND c).          *)
(***************************************************************************)
IsWord(tok, word) == tok.type = "Term" /\ tok.value = word

\* The truth value of a boolean query (its tokens toks, read from index i)
\* when exactly the terms in the set true hold: NOT binds tighter than AND,
\* AND tighter than OR, parentheses group.  Each operator returns the value
\* and the index after what it read.
RECURSIVE EvalOr(_, _, _)
RECURSIVE EvalAnd(_, _, _)
RECURSIVE EvalNot(_, _, _)
EvalNot(toks, i, true) ==
    IF toks[i].type = "LParen"
    THEN LET r == EvalOr(toks, i + 1, true) IN [val |-> r.val, i |-> r.i + 1]
    ELSE IF IsWord(toks[i], <<"N", "O", "T">>)
         THEN LET r == EvalNot(toks, i + 1, true) IN [val |-> ~r.val, i |-> r.i]
         ELSE [val |-> TermText(toks[i]) \in true, i |-> i + 1]

EvalAnd(toks, i, true) ==
    LET l == EvalNot(toks, i, true)
    IN  IF l.i <= Len(toks) /\ IsWord(toks[l.i], <<"A", "N", "D">>)
        THEN LET r == EvalAnd(toks, l.i + 1, true)
             IN  [val |-> l.val /\ r.val, i |-> r.i]
        ELSE l

EvalOr(toks, i, true) ==
    LET l == EvalAnd(toks, i, true)
    IN  IF l.i <= Len(toks) /\ toks[l.i].type = "Or"
        THEN LET r == EvalOr(toks, l.i + 1, true)
             IN  [val |-> l.val \/ r.val, i |-> r.i]
        ELSE l

Meaning(q, true) == EvalOr(Tokens(q), 1, true).val

C12_ImplicitAndBindsTighterThanOr ==
    pc = "done" =>
        \A true \in SUBSET { <<"a">>, <<"b">>, <<"c">> } :
            LET a == <<"a">> \in true
                b == <<"b">> \in true
                c == <<"c">> \in true
            IN  /\ input = ExAndThenOr => (Meaning(query, true) <=> ((a /\ b) \/ c))
                /\ input = ExOrThenAnd => (Meaning(query, true) <=> (a \/ (b /\ c)))

(***************************************************************************)
(* The calls on a parsed expression: HasComplexExpression and              *)
(* SimplifySearchExpression.  The caller's output variables hold what the  *)
(* caller left in them.                                                    *)
(*   pc = "checked"     HasComplexExpression returned has_complex          *)
(*        "simplified"  SimplifySearchExpression returned simplified       *)
(***************************************************************************)
Find(term, sub) ==
    \E i \in 0..(Len(term) - Len(sub)) : SubSeq(term, i + 1, i + Len(sub)) = sub

has_or_or_parens(term) ==
    \/ Find(term, <<"O", "R">>)
    \/ Find(term, <<"(">>)
    \/ Find(term, <<")">>)

\* std::any_of(terms.begin(), terms.end(), has_or_or_parens)
any_of(terms) == \E i \in 1..Len(terms) : has_or_or_parens(terms[i])

HasComplexExpression(e) ==
    IF e.raw_expression # <<>>
    THEN TRUE
    ELSE \/ any_of(e.required_terms)
         \/ any_of(e.excluded_terms)
         \/ any_of(e.optional_terms)

Simplified(ok, m, a, nt, r) ==
    [ok |-> ok, main_term |-> m, and_terms |-> a, not_terms |-> nt,
     expr |-> r.expr, err |-> r.err]

\* Mutant: without required terms the first excluded term becomes main_term.
ExtractTerms_AnyTerm(r, m, a, nt) ==
    IF ~r.ok
    THEN Simplified(FALSE, m, a, nt, r)
    ELSE IF r.expr.required_terms # <<>>
         THEN Simplified(TRUE, Head(r.expr.required_terms), Tail(r.expr.required_terms),
                         r.expr.excluded_terms, r)
         ELSE IF r.expr.excluded_terms # <<>>
              THEN Simplified(TRUE, Head(r.expr.excluded_terms), <<>>,
                              Tail(r.expr.excluded_terms), r)
              ELSE Simplified(FALSE, m, a, nt, r)

\* The body of SimplifySearchExpression after its call of
\* ParseSearchExpression, which returned r.
ExtractTerms(r, m, a, nt) ==
    IF ~r.ok
    THEN Simplified(FALSE, m, a, nt, r)
    ELSE IF r.expr.required_terms # <<>>
         THEN Simplified(TRUE, Head(r.expr.required_terms), Tail(r.expr.required_terms),
                         r.expr.excluded_terms, r)
         ELSE Simplified(FALSE, m, a, nt, r)

\* The result, the output parameters as the call leaves them, and the
\* local result of ParseSearchExpression.
SimplifySearchExpression(str, m, a, nt) ==
    ExtractTerms(ParseSearchExpression(str), m, a, nt)

\* What the caller's output variables hold before the call.
CallerTerms == { <<>>, << <<"x">> >> }

InitCalls ==
    /\ input \in Inputs
    /\ pc = "start"
    /\ pos = 0
    /\ current = Token("End", <<>>)
    /\ last_pos = 0
    /\ expr = EmptyExpr
    /\ err = ""
    /\ query = <<>>
    /\ has_complex = FALSE
    /\ simplified = FALSE
    /\ and_terms \in CallerTerms
    /\ not_terms = and_terms
    /\ main_term = (IF and_terms = <<>> THEN <<>> ELSE <<"m">>)
    /\ NoUtil /\ NoClient

\* ParseSearchExpression(input), from the call to its return.
CallParseSearchExpression ==
    /\ pc = "start"
    /\ \E r \in { ParseSearchExpression(input) } :
           /\ pc' = IF r.ok THEN "parsed" ELSE "error"
           /\ expr' = r.expr
           /\ err' = r.err
    /\ UNCHANGED <<input, pos, current, last_pos, query>>
    /\ UNCHANGED <<callVars, utilVars, clientVars>>

CallHasComplexExpression ==
    /\ pc = "parsed"
    /\ has_complex' = HasComplexExpression(expr)
    /\ pc' = "checked"
    /\ UNCHANGED <<input, pos, current, last_pos, expr, err, query>>
    /\ UNCHANGED <<simplified, main_term, and_terms, not_terms, utilVars, clientVars>>

CallSimplifySearchExpression ==
    /\ pc = "start"
    /\ \E s \in { SimplifySearchExpression(input, main_term, and_terms, not_terms) } :
           /\ simplified' = s.ok
           /\ main_term' = s.main_term
           /\ and_terms' = s.and_terms
           /\ not_terms' = s.not_terms
           /\ expr' = s.expr
           /\ err' = s.err
    /\ pc' = "simplified"
    /\ UNCHANGED <<input, pos, current, last_pos, query, has_complex, utilVars, clientVars>>

NextCalls ==
    \/ CallParseSearchExpression
    \/ CallHasComplexExpression
    \/ CallSimplifySearchExpression

SpecCalls == InitCalls /\ [][NextCalls]_vars

(***************************************************************************)
(* C13.  For every successfully parsed input HasComplexExpression()        *)
(* returns true if and only if the input contained an OR operator token or *)
(* a parenthesized group; for an input of plain bare terms only, such as   *)
(* the single term FORTRAN, it returns false.                              *)
(***************************************************************************)
HasOrOrGroup(str) == TokenTypes(str) \cap {"Or", "LParen"} # {}

C13_ComplexIffOrOrGroup ==
    pc = "checked" =>
        /\ has_complex <=> HasOrOrGroup(input)
        /\ TokenTypes(input) \subseteq {"Term"} => ~has_complex

(***************************************************************************)
(* C14.  SimplifySearchExpression succeeds exactly when the input parses   *)
(* and required_terms is non-empty; on success main_term is                *)
(* required_terms[0], and_terms the remaining required terms in order and  *)
(* not_terms excluded_terms in order; it fails when parsing fails or       *)
(* required_terms is empty, as for an input that is only an OR chain or    *)
(* only excluded terms.                                                    *)
(***************************************************************************)
\* toks is a non-empty sequence of '-' term pairs.
IsOnlyExcluded(toks) ==
    /\ Len(toks) >= 2
    /\ Len(toks) % 2 = 0
    /\ \A i \in 1..Len(toks) :
           IF i % 2 = 1 THEN toks[i].type = "Minus"
           ELSE toks[i].type \in {"Term", "QuotedTerm"}

RECURSIVE BitAnd(_, _)
BitAnd(x, y) ==
    IF x = 0 \/ y = 0 THEN 0
    ELSE (x % 2) * (y % 2) + 2 * BitAnd(x \div 2, y \div 2)

RECURSIVE BitOr(_, _)
BitOr(x, y) ==
    IF x = 0 THEN y
    ELSE IF y = 0 THEN x
    ELSE (IF x % 2 = 1 \/ y % 2 = 1 THEN 1 ELSE 0) + 2 * BitOr(x \div 2, y \div 2)

Shl(x, k) == x * 2 ^ k

Shr(x, k) == x \div 2 ^ k

\* static_cast<char>: the low eight bits.
ToChar(x) == x % 256

kUtf8OneByteMask == 128

kUtf8TwoByteMask == 224

kUtf8TwoBytePattern == 192

kUtf8ThreeByteMask == 240

kUtf8ThreeBytePattern == 224

kUtf8FourByteMask == 248

kUtf8FourBytePattern == 240

kUtf8ContinuationMask == 63

kUtf8ContinuationPattern == 128

kUtf8TwoByteDatMask == 31

kUtf8ThreeByteDatMask == 15

kUtf8FourByteDatMask == 7

kUtf8Shift6 == 6

kUtf8Shift12 == 12

kUtf8Shift18 == 18

kUnicodeMaxOneByte == 127

kUnicodeMaxTwoByte == 2047

kUnicodeMaxThreeByte == 65535

kUnicodeMaxCodepoint == 1114111

Utf8CharLength(first_byte) ==
    IF BitAnd(first_byte, kUtf8OneByteMask) = 0 THEN 1
    ELSE IF BitAnd(first_byte, kUtf8TwoByteMask) = kUtf8TwoBytePattern THEN 2
    ELSE IF BitAnd(first_byte, kUtf8ThreeByteMask) = kUtf8ThreeBytePattern THEN 3
    ELSE IF BitAnd(first_byte, kUtf8FourByteMask) = kUtf8FourBytePattern THEN 4
    ELSE 1

\* The continuation byte at 0-based index i, masked.
Continuation(str, i) == BitAnd(str[i + 1], kUtf8ContinuationMask)

\* The codepoint assembled from the char_len bytes at 0-based index i.
DecodeAt(str, i, char_len) ==
    LET first_byte == str[i + 1] IN
    IF char_len = 1 THEN first_byte
    ELSE IF char_len = 2
    THEN BitOr(Shl(BitAnd(first_byte, kUtf8TwoByteDatMask), kUtf8Shift6),
               Continuation(str, i + 1))
    ELSE IF char_len = 3
    THEN BitOr(BitOr(Shl(BitAnd(first_byte, kUtf8ThreeByteDatMask), kUtf8Shift12),
                     Shl(Continuation(str, i + 1), kUtf8Shift6)),
               Continuation(str, i + 2))
    ELSE BitOr(BitOr(BitOr(Shl(BitAnd(first_byte, kUtf8FourByteDatMask), kUtf8Shift18),
                           Shl(Continuation(str, i + 1), kUtf8Shift12)),
                     Shl(Continuation(str, i + 2), kUtf8Shift6)),
               Continuation(str, i + 3))

\* The for loop of Utf8ToCodepoints.
RECURSIVE DecodeFrom(_, _, _)
DecodeFrom(str, i, cps) ==
    IF i >= Len(str) THEN cps
    ELSE LET char_len == Utf8CharLength(str[i + 1]) IN
         IF i + char_len > Len(str)
         THEN DecodeFrom(str, i + 1, cps)
         ELSE DecodeFrom(str, i + char_len, Append(cps, DecodeAt(str, i, char_len)))

Utf8ToCodepoints(str) == DecodeFrom(str, 0, <<>>)

\* Mutant: the last codepoint of each length class is not encoded.
EncodeOne_Exclusive(codepoint) ==
    IF codepoint < kUnicodeMaxOneByte
    THEN <<ToChar(codepoint)>>
    ELSE IF codepoint < kUnicodeMaxTwoByte
    THEN <<ToChar(BitOr(kUtf8TwoBytePattern, Shr(codepoint, kUtf8Shift6))),
           ToChar(BitOr(kUtf8ContinuationPattern, BitAnd(codepoint, kUtf8ContinuationMask)))>>
    ELSE IF codepoint < kUnicodeMaxThreeByte
    THEN <<ToChar(BitOr(kUtf8ThreeBytePattern, Shr(codepoint, kUtf8Shift12))),
           ToChar(BitOr(kUtf8ContinuationPattern,
                        BitAnd(Shr(codepoint, kUtf8Shift6), kUtf8ContinuationMask))),
           ToChar(BitOr(kUtf8ContinuationPattern, BitAnd(codepoint, kUtf8ContinuationMask)))>>
    ELSE IF codepoint < kUnicodeMaxCodepoint
    THEN <<ToChar(BitOr(kUtf8FourBytePattern, Shr(codepoint, kUtf8Shift18))),
           ToChar(BitOr(kUtf8ContinuationPattern,
                        BitAnd(Shr(codepoint, kUtf8Shift12), kUtf8ContinuationMask))),
           ToChar(BitOr(kUtf8ContinuationPattern,
                        BitAnd(Shr(codepoint, kUtf8Shift6), kUtf8ContinuationMask))),
           ToChar(BitOr(kUtf8ContinuationPattern, BitAnd(codepoint, kUtf8ContinuationMask)))>>
    ELSE <<>>

\* The bytes the loop body of CodepointsToUtf8 appends for one codepoint.
EncodeOne(codepoint) ==
    IF codepoint <= kUnicodeMaxOneByte
    THEN <<ToChar(codepoint)>>
    ELSE IF codepoint <= kUnicodeMaxTwoByte
    THEN <<ToChar(BitOr(kUtf8TwoBytePattern, Shr(codepoint, kUtf8Shift6))),
           ToChar(BitOr(kUtf8ContinuationPattern, BitAnd(codepoint, kUtf8ContinuationMask)))>>
    ELSE IF codepoint <= kUnicodeMaxThreeByte
    THEN <<ToChar(BitOr(kUtf8ThreeBytePattern, Shr(codepoint, kUtf8Shift12))),
           ToChar(BitOr(kUtf8ContinuationPattern,
                        BitAnd(Shr(codepoint, kUtf8Shift6), kUtf8ContinuationMask))),
           ToChar(BitOr(kUtf8ContinuationPattern, BitAnd(codepoint, kUtf8ContinuationMask)))>>
    ELSE IF codepoint <= kUnicodeMaxCodepoint
    THEN <<ToChar(BitOr(kUtf8FourBytePattern, Shr(codepoint, kUtf8Shift18))),
           ToChar(BitOr(kUtf8ContinuationPattern,
                        BitAnd(Shr(codepoint, kUtf8Shift12), kUtf8ContinuationMask))),
           ToChar(BitOr(kUtf8ContinuationPattern,
                        BitAnd(Shr(codepoint, kUtf8Shift6), kUtf8ContinuationMask))),
           ToChar(BitOr(kUtf8ContinuationPattern, BitAnd(codepoint, kUtf8ContinuationMask)))>>
    ELSE <<>>

RECURSIVE EncodeFrom(_, _, _)
EncodeFrom(cps, k, result) ==
    IF k > Len(cps) THEN result
    ELSE EncodeFrom(cps, k + 1, result \o EncodeOne(cps[k]))

CodepointsToUtf8(cps) == EncodeFrom(cps, 1, <<>>)

(***************************************************************************)
(* Texts a caller may pass to the codec: at most MaxUnits units, a unit    *)
(* being one byte (ASCII, a stray continuation byte, a lead byte of each   *)
(* length, F7), a well-formed sequence at the ends of each length class    *)
(* (U+0080, U+07FF, U+0800, U+6F22, U+D7FF, U+FFFF, U+10000, U+10FFFF) or  *)
(* an ill-formed one (overlong C0 80, the surrogate ED A0 80, F4 90 80 80  *)
(* above U+10FFFF).  F8 is a byte of the form 11111xxx.                    *)
(***************************************************************************)
MaxUnits == 3

Utf8Units ==
    { <<65>>, <<128>>, <<195>>, <<230>>, <<240>>, <<247>>, <<248>>,
      <<194, 128>>, <<223, 191>>, <<224, 160, 128>>, <<230, 188, 162>>,
      <<237, 159, 191>>, <<239, 191, 191>>, <<240, 144, 128, 128>>,
      <<244, 143, 191, 191>>,
      <<192, 128>>, <<237, 160, 128>>, <<244, 144, 128, 128>> }

Utf8Texts == Concats(Utf8Units, MaxUnits)

(***************************************************************************)
(* State machine of a decode followed by an encode.                        *)
(*   pc = "start"    the caller holds arg_text                             *)
(*        "decoded"  Utf8ToCodepoints returned codepoints                  *)
(*        "encoded"  CodepointsToUtf8 returned encoded                     *)
(***************************************************************************)
InitUtf8 ==
    /\ NoParser /\ NoCall /\ NoClient
    /\ pc = "start"
    /\ arg_text \in Utf8Texts
    /\ arg_n = 0
    /\ ascii_ngram_size = 0
    /\ kanji_ngram_size = 0
    /\ codepoints = <<>>
    /\ encoded = <<>>
    /\ ngram_codepoints = <<>>
    /\ ngrams = <<>>
    /\ thrown = ""

CallUtf8ToCodepoints ==
    /\ pc = "start"
    /\ codepoints' = Utf8ToCodepoints(arg_text)
    /\ pc' = "decoded"
    /\ UNCHANGED <<input, pos, current, last_pos, expr, err, query, callVars, clientVars>>
    /\ UNCHANGED <<arg_text, arg_n, ascii_ngram_size, kanji_ngram_size, encoded, ngram_codepoints, ngrams, thrown>>

CallCodepointsToUtf8 ==
    /\ pc = "decoded"
    /\ encoded' = CodepointsToUtf8(codepoints)
    /\ pc' = "encoded"
    /\ UNCHANGED <<input, pos, current, last_pos, expr, err, query, callVars, clientVars>>
    /\ UNCHANGED <<arg_text, arg_n, ascii_ngram_size, kanji_ngram_size, codepoints, ngram_codepoints, ngrams, thrown>>

NextUtf8 == CallUtf8ToCodepoints \/ CallCodepointsToUtf8

SpecUtf8 == InitUtf8 /\ [][NextUtf8]_vars

(***************************************************************************)
(* C16.  For every well-formed UTF-8 byte string s,                        *)
(* CodepointsToUtf8(Utf8ToCodepoints(s)) is byte-identical to s.           *)
(***************************************************************************)
InRange(b, lo, hi) == lo <= b /\ b <= hi

IsTail(str, i) == i <= Len(str) /\ InRange(str[i], 128, 191)

\* The length of the well-formed sequence that starts at str[i] (The
\* Unicode Standard, table 3-7), 0 when there is none.
WellFormedLength(str, i) ==
    LET b == str[i]
        second(lo, hi) == i + 1 <= Len(str) /\ InRange(str[i + 1], lo, hi)
    IN  IF InRange(b, 0, 127) THEN 1
        ELSE IF InRange(b, 194, 223) /\ IsTail(str, i + 1) THEN 2
        ELSE IF /\ \/ b = 224 /\ second(160, 191)
                   \/ InRange(b, 225, 236) /\ second(128, 191)
                   \/ b = 237 /\ second(128, 159)
                   \/ InRange(b, 238, 239) /\ second(128, 191)
                /\ IsTail(str, i + 2)
             THEN 3
        ELSE IF /\ \/ b = 240 /\ second(144, 191)
                   \/ InRange(b, 241, 243) /\ second(128, 191)
                   \/ b = 244 /\ second(128, 143)
                /\ IsTail(str, i + 2)
                /\ IsTail(str, i + 3)
             THEN 4
        ELSE 0

RECURSIVE IsWellFormedFrom(_, _)
IsWellFormedFrom(str, i) ==
    IF i > Len(str) THEN TRUE
    ELSE LET len == WellFormedLength(str, i)
         IN  len > 0 /\ IsWellFormedFrom(str, i + len)

IsWellFormedUtf8(str) == IsWellFormedFrom(str, 1)

C16_RoundTrip == (pc = "encoded" /\ IsWellFormedUtf8(arg_text)) => encoded = arg_text

\* U+0041, U+6F22, U+10FFFF
C16_Witness ==
    /\ pc = "encoded"
    /\ arg_text = <<65, 230, 188, 162, 244, 143, 191, 191>>
    /\ codepoints = <<65, 28450, 1114111>>
    /\ encoded = arg_text

(***************************************************************************)
(* GenerateNgrams and GenerateHybridNgrams.  A result is the record of the *)
(* n-grams returned, the codepoint window of each and the exception that   *)
(* left the function ("" when it returned).                                *)
(***************************************************************************)
Ngrams(ngs, windows) == [ngrams |-> ngs, ngram_codepoints |-> windows, thrown |-> ""]

Thrown(what) == [ngrams |-> <<>>, ngram_codepoints |-> <<>>, thrown |-> what]

\* The elements first .. last - 1 (0-based) of cps: the range constructor
\* std::vector(codepoints.begin() + first, codepoints.begin() + last).
Range(cps, first, last) == SubSeq(cps, first + 1, last)

\* Mutant: the loop stops one window early.
RECURSIVE NgramLoop_Short(_, _, _, _, _)
NgramLoop_Short(cps, nn, i, ngs, windows) ==
    IF i < Len(cps) - nn
    THEN LET ngram_cp == Range(cps, i, i + nn)
         IN  NgramLoop_Short(cps, nn, i + 1, Append(ngs, CodepointsToUtf8(ngram_cp)),
                             Append(windows, ngram_cp))
    ELSE Ngrams(ngs, windows)

\* The loop for n > 1.
RECURSIVE NgramLoop(_, _, _, _, _)
NgramLoop(cps, nn, i, ngs, windows) ==
    IF i <= Len(cps) - nn
    THEN LET ngram_cp == Range(cps, i, i + nn)
         IN  NgramLoop(cps, nn, i + 1, Append(ngs, CodepointsToUtf8(ngram_cp)),
                       Append(windows, ngram_cp))
    ELSE Ngrams(ngs, windows)

\* The loop for n = 1.
RECURSIVE UnigramLoop(_, _, _, _)
UnigramLoop(cps, k, ngs, windows) ==
    IF k > Len(cps) THEN Ngrams(ngs, windows)
    ELSE UnigramLoop(cps, k + 1, Append(ngs, CodepointsToUtf8(<<cps[k]>>)),
                     Append(windows, <<cps[k]>>))

GenerateNgrams(str, nn) ==
    LET cps == Utf8ToCodepoints(str) IN
    IF cps = <<>> \/ nn <= 0 THEN Ngrams(<<>>, <<>>)
    ELSE IF nn = 1 THEN UnigramLoop(cps, 1, <<>>, <<>>)
    ELSE IF Len(cps) < nn THEN Ngrams(<<>>, <<>>)
    ELSE NgramLoop(cps, nn, 0, <<>>, <<>>)

kCjkMainStart == 19968

kCjkMainEnd == 40959

kCjkExtAStart == 13312

kCjkExtAEnd == 19903

kCjkExtBStart == 131072

kCjkExtBEnd == 173791

kCjkExtCStart == 173824

kCjkExtCEnd == 177983

kCjkExtDStart == 177984

kCjkExtDEnd == 178207

kCjkCompatStart == 63744

kCjkCompatEnd == 64255

\* Mutant: Hiragana and Katakana (kana) count as CJK ideographs.
IsCJKIdeograph_Kana(codepoint) ==
    \/ (codepoint >= kCjkMainStart /\ codepoint <= kCjkMainEnd)
    \/ (codepoint >= kCjkExtAStart /\ codepoint <= kCjkExtAEnd)
    \/ (codepoint >= kCjkExtBStart /\ codepoint <= kCjkExtBEnd)
    \/ (codepoint >= kCjkExtCStart /\ codepoint <= kCjkExtCEnd)
    \/ (codepoint >= kCjkExtDStart /\ codepoint <= kCjkExtDEnd)
    \/ (codepoint >= kCjkCompatStart /\ codepoint <= kCjkCompatEnd)
    \/ (codepoint >= 12352 /\ codepoint <= 12543)

IsCJKIdeograph(codepoint) ==
    \/ (codepoint >= kCjkMainStart /\ codepoint <= kCjkMainEnd)
    \/ (codepoint >= kCjkExtAStart /\ codepoint <= kCjkExtAEnd)
    \/ (codepoint >= kCjkExtBStart /\ codepoint <= kCjkExtBEnd)
    \/ (codepoint >= kCjkExtCStart /\ codepoint <= kCjkExtCEnd)
    \/ (codepoint >= kCjkExtDStart /\ codepoint <= kCjkExtDEnd)
    \/ (codepoint >= kCjkCompatStart /\ codepoint <= kCjkCompatEnd)

\* i + size <= codepoints.size(), computed in size_t: the int size is
\* converted to size_t, so for i + size < 0 the sum is 2^64 + i + size,
\* which is larger than the size of any vector.
FitsFrom(i, size, cps) == IF i + size < 0 THEN FALSE ELSE i + size <= Len(cps)

\* The loops "for (int j = 0; j < size; ++j)" that test the class.
AllOfClass(cps, i, size, cjk) ==
    \A j \in 0..(size - 1) : IsCJKIdeograph(cps[i + j + 1]) = cjk

\* The for loop of GenerateHybridNgrams.  reserve(size) with a negative
\* size asks for more than max_size() elements and throws.
RECURSIVE HybridLoop(_, _, _, _, _, _)
HybridLoop(cps, i, ascii_size, kanji_size, ngs, windows) ==
    IF i >= Len(cps) THEN Ngrams(ngs, windows)
    ELSE LET cjk == IsCJKIdeograph(cps[i + 1])
             size == IF cjk THEN kanji_size ELSE ascii_size
         IN  IF FitsFrom(i, size, cps) /\ AllOfClass(cps, i, size, cjk)
             THEN IF size < 0
                  THEN Thrown("std::length_error")
                  ELSE LET window == Range(cps, i, i + size)
                       IN  HybridLoop(cps, i + 1, ascii_size, kanji_size,
                                      Append(ngs, CodepointsToUtf8(window)),
                                      Append(windows, window))
             ELSE HybridLoop(cps, i + 1, ascii_size, kanji_size, ngs, windows)

\* Mutant: a window that fits is taken without looking at the class of
\* the codepoints after the first.
RECURSIVE HybridLoop_Unchecked(_, _, _, _, _, _)
HybridLoop_Unchecked(cps, i, ascii_size, kanji_size, ngs, windows) ==
    IF i >= Len(cps) THEN Ngrams(ngs, windows)
    ELSE LET cjk == IsCJKIdeograph(cps[i + 1])
             size == IF cjk THEN kanji_size ELSE ascii_size
         IN  IF FitsFrom(i, size, cps)
             THEN IF size < 0
                  THEN Thrown("std::length_error")
                  ELSE LET window == Range(cps, i, i + size)
                       IN  HybridLoop_Unchecked(cps, i + 1, ascii_size, kanji_size,
                                           Append(ngs, CodepointsToUtf8(window)),
                                           Append(windows, window))
             ELSE HybridLoop_Unchecked(cps, i + 1, ascii_size, kanji_size, ngs, windows)

GenerateHybridNgrams_Unchecked(str, ascii_size, kanji_size) ==
    LET cps == Utf8ToCodepoints(str) IN
    IF cps = <<>> THEN Ngrams(<<>>, <<>>)
    ELSE HybridLoop_Unchecked(cps, 0, ascii_size, kanji_size, <<>>, <<>>)

GenerateHybridNgrams(str, ascii_size, kanji_size) ==
    LET cps == Utf8ToCodepoints(str) IN
    IF cps = <<>> THEN Ngrams(<<>>, <<>>)
    ELSE HybridLoop(cps, 0, ascii_size, kanji_size, <<>>, <<>>)

(***************************************************************************)
(* Texts passed to the n-gram functions: at most MaxChars characters out   *)
(* of a (non-CJK), U+3042 (Hiragana, non-CJK), U+30A2 (Katakana, non-CJK), *)
(* U+6F22 (CJK main block), U+20000 (CJK extension B) and the bytes        *)
(* F7 BF BF BF, which decode to 0x1FFFFF; sizes from -MaxSize to MaxSize.  *)
(***************************************************************************)
MaxChars == 3

MaxSize == 2

NgramChars ==
    { <<97>>, <<227, 129, 130>>, <<227, 130, 162>>, <<230, 188, 162>>,
      <<240, 160, 128, 128>>, <<247, 191, 191, 191>> }

NgramTexts == Concats(NgramChars, MaxChars)

Sizes == (0 - MaxSize)..MaxSize

InitNgrams ==
    /\ NoParser /\ NoCall /\ NoClient
    /\ pc = "start"
    /\ arg_text \in NgramTexts
    /\ arg_n = 0
    /\ ascii_ngram_size = 0
    /\ kanji_ngram_size = 0
    /\ codepoints = <<>>
    /\ encoded = <<>>
    /\ ngram_codepoints = <<>>
    /\ ngrams = <<>>
    /\ thrown = ""

Return(r) ==
    /\ codepoints' = Utf8ToCodepoints(arg_text)
    /\ ngram_codepoints' = r.ngram_codepoints
    /\ ngrams' = r.ngrams
    /\ thrown' = r.thrown

CallGenerateNgrams ==
    /\ pc = "start"
    /\ \E nn \in Sizes :
           /\ arg_n' = nn
           /\ Return(GenerateNgrams(arg_text, nn))
    /\ pc' = "ngrams"
    /\ UNCHANGED <<input, pos, current, last_pos, expr, err, query, callVars, clientVars>>
    /\ UNCHANGED <<arg_text, ascii_ngram_size, kanji_ngram_size, encoded>>

CallGenerateHybridNgrams ==
    /\ pc = "start"
    /\ \E ascii_size \in Sizes, kanji_size \in Sizes :
           /\ ascii_ngram_size' = ascii_size
           /\ kanji_ngram_size' = kanji_size
           /\ Return(GenerateHybridNgrams(arg_text, ascii_size, kanji_size))
    /\ pc' = "hybrid"
    /\ UNCHANGED <<input, pos, current, last_pos, expr, err, query, callVars, clientVars>>
    /\ UNCHANGED <<arg_text, arg_n, encoded>>

NextNgrams == CallGenerateNgrams \/ CallGenerateHybridNgrams

SpecNgrams == InitNgrams /\ [][NextNgrams]_vars

(***************************************************************************)
(* C17.  GenerateNgrams(text, n), c[0..L) being the decoded codepoints:    *)
(* for n = 1 it returns L n-grams, the i-th the encoding of c[i]; for      *)
(* n > 1 and L >= n it returns exactly L - n + 1 n-grams, the i-th the     *)
(* encoding of c[i..i+n), in increasing i; it returns the empty sequence   *)
(* when L < n or n <= 0.                                                   *)
(***************************************************************************)
C17_SlidingWindows ==
    pc = "ngrams" =>
        LET c == Utf8ToCodepoints(arg_text)
            L == Len(c)
        IN  /\ thrown = ""
            /\ arg_n = 1 =>
                   /\ Len(ngrams) = L
                   /\ \A i \in 1..L : ngrams[i] = CodepointsToUtf8(<<c[i]>>)
            /\ (arg_n > 1 /\ L >= arg_n) =>
                   /\ Len(ngrams) = L - arg_n + 1
                   /\ \A i \in 1..Len(ngrams) :
                          ngrams[i] = CodepointsToUtf8(SubSeq(c, i, i + arg_n - 1))
            /\ (L < arg_n \/ arg_n <= 0) => ngrams = <<>>

\* a, U+6F22, U+3042 with n = 2
C17_Witness ==
    /\ pc = "ngrams"
    /\ arg_n = 2
    /\ arg_text = <<97, 230, 188, 162, 227, 129, 130>>
    /\ ngrams = << <<97, 230, 188, 162>>, <<230, 188, 162, 227, 129, 130>> >>

(***************************************************************************)
(* C18.  For every text and all sizes ascii_n >= 1 and kanji_n >= 1,       *)
(* GenerateHybridNgrams never emits a window that mixes a CJK ideograph    *)
(* with a non-CJK codepoint: every emitted window of CJK codepoints has    *)
(* exactly kanji_n codepoints and every emitted window of non-CJK          *)
(* codepoints exactly ascii_n.  The windows are the codepoint sequences    *)
(* the function encodes; each n-gram returned is the encoding of its       *)
(* window and, when the text holds no codepoint above 0x10FFFF, decodes to *)
(* it again.                                                               *)
(***************************************************************************)
AllCJK(window) == \A j \in 1..Len(window) : IsCJKIdeograph(window[j])

NoneCJK(window) == \A j \in 1..Len(window) : ~IsCJKIdeograph(window[j])

InUnicode(cps) == \A j \in 1..Len(cps) : cps[j] <= kUnicodeMaxCodepoint

C18_HybridWindowsAreOfOneClass ==
    (pc = "hybrid" /\ ascii_ngram_size >= 1 /\ kanji_ngram_size >= 1) =>
        /\ thrown = ""
        /\ Len(ngrams) = Len(ngram_codepoints)
        /\ \A k \in 1..Len(ngrams) :
               LET window == ngram_codepoints[k] IN
               /\ \/ AllCJK(window) /\ Len(window) = kanji_ngram_size
                  \/ NoneCJK(window) /\ Len(window) = ascii_ngram_size
               /\ ngrams[k] = CodepointsToUtf8(window)
               /\ InUnicode(window) => Utf8ToCodepoints(ngrams[k]) = window

\* a, a, U+6F22 with sizes 2 and 1: the window a U+6F22 is not emitted
C18_Witness ==
    /\ pc = "hybrid"
    /\ ascii_ngram_size = 2
    /\ kanji_ngram_size = 1
    /\ arg_text = <<97, 97, 230, 188, 162>>
    /\ ngram_codepoints = << <<97, 97>>, <<28450>> >>
    /\ ngrams = << <<97, 97>>, <<230, 188, 162>> >>

(***************************************************************************)
(* C19.  GenerateHybridNgrams raises no error and returns the empty        *)
(* sequence for every degenerate input: the empty text, and every call in  *)
(* which ascii_ngram_size <= 0 or kanji_ngram_size <= 0, whatever the      *)
(* text.                                                                   *)
(***************************************************************************)
C19_DegenerateInputsGiveNothing ==
    (/\ pc = "hybrid"
     /\ (arg_text = <<>> \/ ascii_ngram_size <= 0 \/ kanji_ngram_size <= 0)) =>
        (thrown = "" /\ ngrams = <<>>)

(***************************************************************************)
(* MygramClient (src/src/mygramclient.cpp): one client object, its TCP     *)
(* connection and the threads that call SendCommand on it.  Search, Count, *)
(* Get and the other commands build a command line and call SendCommand.   *)
(*   sock_     the descriptor, -1 when not connected                       *)
(*   outgoing  the command lines sent and not yet read by the server       *)
(*   incoming  the bytes the server sent and no recv() has returned yet    *)
(*   peer_closed  the server has closed the connection                     *)
(*   last_call    the last Connect or Disconnect call and its error        *)
(*   calls[t]  the call of thread t: pc is "idle", "recv" (inside the      *)
(*             receive loop) or "returned"; response is the local string   *)
(* The server answers the command lines in the order it reads them, each   *)
(* with one line that ends with \r\n.  A recv() returns any non-empty      *)
(* prefix of the bytes that have arrived, at most recv_buffer_size - 1;    *)
(* it times out only when nothing has arrived and nothing is on its way.   *)
(***************************************************************************)
MaxCalls == 1

recv_buffer_size == 65536

Threads == { "t1", "t2" }

Commands == { "A", "B" }

\* The server's response line to a command, without the terminator.
ResponseLine(command) == IF command = "A" THEN <<"a">> ELSE <<"b">>

Response(command) == ResponseLine(command) \o <<"\r", "\n">>

Idle ==
    [pc |-> "idle", command |-> "", response |-> <<>>, ok |-> FALSE, result |-> <<>>,
     error |-> "", made |-> 0]

Failure(call, command, message) ==
    [call EXCEPT !.pc = "returned", !.command = command, !.response = <<>>, !.ok = FALSE,
                 !.result = <<>>, !.error = message, !.made = @ + 1]

IsConnected == sock_ >= 0

\* response.size() >= 2 and the last two bytes are \r\n.
IsComplete(response) ==
    /\ Len(response) >= 2
    /\ response[Len(response) - 1] = "\r"
    /\ response[Len(response)] = "\n"

\* The loop that removes trailing \r and \n.
RECURSIVE RemoveTrailing(_)
RemoveTrailing(response) ==
    IF response # <<>> /\ response[Len(response)] \in {"\n", "\r"}
    THEN RemoveTrailing(SubSeq(response, 1, Len(response) - 1))
    ELSE response

Min(a, b) == IF a < b THEN a ELSE b

InitClient ==
    /\ NoParser /\ NoCall /\ NoUtil
    /\ pc = "start"
    /\ sock_ = -1
    /\ outgoing = <<>>
    /\ incoming = <<>>
    /\ peer_closed = FALSE
    /\ last_call = [op |-> "none", error |-> ""]
    /\ calls = [t \in Threads |-> Idle]

\* What socket(), inet_pton() and connect() can make of one Connect(): ""
\* when all three succeed, else the start of the message of the error.
ConnectOutcomes ==
    { "", "Failed to create socket", "Invalid address", "Connection failed" }

\* Connect(): the connection attempt succeeds or fails.
Connect ==
    /\ IF IsConnected
       THEN /\ last_call' = [op |-> "Connect", error |-> "Already connected"]
            /\ UNCHANGED <<sock_, outgoing, incoming, peer_closed>>
       ELSE \E outcome \in ConnectOutcomes :
                /\ sock_' = (IF outcome = "" THEN 3 ELSE -1)
                /\ last_call' = [op |-> "Connect", error |-> outcome]
                /\ outgoing' = <<>>
                /\ incoming' = <<>>
                /\ peer_closed' = FALSE
    /\ UNCHANGED <<parserVars, callVars, utilVars, calls>>

\* Disconnect(), called while no SendCommand is in progress.
Disconnect ==
    /\ \A t \in Threads : calls[t].pc # "recv"
    /\ IF IsConnected
       THEN /\ sock_' = -1
            /\ outgoing' = <<>>
            /\ incoming' = <<>>
            /\ peer_closed' = FALSE
       ELSE UNCHANGED <<sock_, outgoing, incoming, peer_closed>>
    /\ last_call' = [op |-> "Disconnect", error |-> ""]
    /\ UNCHANGED <<parserVars, callVars, utilVars, calls>>

\* SendCommand up to its first recv(): the connection test and send().
SendCommand(t) ==
    /\ calls[t].pc \in {"idle", "returned"}
    /\ calls[t].made < MaxCalls
    /\ \E command \in Commands :
           IF ~IsConnected
           THEN /\ calls' = [calls EXCEPT ![t] = Failure(@, command, "Not connected")]
                /\ UNCHANGED outgoing
           ELSE /\ outgoing' = Append(outgoing, command)
                /\ calls' = [calls EXCEPT ![t] =
                                 [@ EXCEPT !.pc = "recv", !.command = command,
                                           !.response = <<>>, !.ok = FALSE,
                                           !.result = <<>>, !.error = "", !.made = @ + 1]]
    /\ UNCHANGED <<parserVars, callVars, utilVars, sock_, incoming, peer_closed, last_call>>

\* One recv() that returns data, and the rest of the loop body; the call
\* returns when the response read so far ends with \r\n.
Receive(t) ==
    /\ calls[t].pc = "recv"
    /\ incoming # <<>>
    /\ \E received \in 1..Min(Len(incoming), recv_buffer_size - 1) :
           LET response == calls[t].response \o SubSeq(incoming, 1, received)
           IN  /\ incoming' = SubSeq(incoming, received + 1, Len(incoming))
               /\ calls' = [calls EXCEPT ![t] =
                                IF IsComplete(response)
                                THEN [@ EXCEPT !.pc = "returned", !.response = response,
                                               !.ok = TRUE,
                                               !.result = RemoveTrailing(response)]
                                ELSE [@ EXCEPT !.response = response]]
    /\ UNCHANGED <<parserVars, callVars, utilVars, sock_, outgoing, peer_closed, last_call>>

\* recv() fails with a timeout (SO_RCVTIMEO).
ReceiveTimeout(t) ==
    /\ calls[t].pc = "recv"
    /\ incoming = <<>>
    /\ outgoing = <<>>
    /\ ~peer_closed
    /\ calls' = [calls EXCEPT ![t] =
                     [@ EXCEPT !.pc = "returned", !.ok = FALSE,
                               !.error = "Failed to receive response"]]
    /\ UNCHANGED <<parserVars, callVars, utilVars, sock_, outgoing, incoming, peer_closed,
                   last_call>>

\* The server reads the next command line and sends its response.
ServerRespond ==
    /\ outgoing # <<>>
    /\ ~peer_closed
    /\ incoming' = incoming \o Response(Head(outgoing))
    /\ outgoing' = Tail(outgoing)
    /\ UNCHANGED <<parserVars, callVars, utilVars, sock_, peer_closed, last_call, calls>>

NextClient ==
    \/ Connect
    \/ Disconnect
    \/ \E t \in Threads : SendCommand(t)
    \/ \E t \in Threads : Receive(t)
    \/ \E t \in Threads : ReceiveTimeout(t)
    \/ ServerRespond

SpecClient == InitClient /\ [][NextClient]_vars

(***************************************************************************)
(* C20.  A single MygramClient is thread-safe: when two threads call       *)
(* SendCommand concurrently on the same connected client, each call        *)
(* returns the server's response to its own command, never the response    *)
(* to the other thread's command and never a mixture of both.              *)
(***************************************************************************)
C20_EachCallGetsItsOwnResponse ==
    \A t \in Threads :
        (calls[t].pc = "returned" /\ calls[t].error # "Not connected") =>
            (calls[t].ok /\ calls[t].result = ResponseLine(calls[t].command))

(***************************************************************************)
(* C21.  Utf8ToCodepoints emits no codepoint for a malformed leading byte: *)
(* a byte at a sequence start that is a stray continuation byte 10xxxxxx   *)
(* or a byte 11111xxx is skipped, one byte at a time, and contributes      *)
(* nothing to the output; decoding continues with the next byte.           *)
(***************************************************************************)
IsMalformedLead(b) == InRange(b, 128, 191) \/ InRange(b, 248, 255)

\* The decoding in which a malformed leading byte is skipped.
RECURSIVE SkippingDecode(_, _, _)
SkippingDecode(str, i, cps) ==
    IF i >= Len(str) THEN cps
    ELSE IF IsMalformedLead(str[i + 1]) THEN SkippingDecode(str, i + 1, cps)
    ELSE LET char_len == Utf8CharLength(str[i + 1]) IN
         IF i + char_len > Len(str)
         THEN SkippingDecode(str, i + 1, cps)
         ELSE SkippingDecode(str, i + char_len, Append(cps, DecodeAt(str, i, char_len)))

Decoded == pc \in { "decoded", "encoded" }

C21_MalformedLeadsAreSkipped == Decoded => codepoints = SkippingDecode(arg_text, 0, <<>>)

(***************************************************************************)
(* C22.  Every codepoint produced by Utf8ToCodepoints, for any byte        *)
(* string (4-byte sequences with lead bytes F4..F7 included), lies in      *)
(* 0..0x10FFFF.                                                            *)
(***************************************************************************)
C22_CodepointsAreInUnicode ==
    Decoded => \A k \in 1..Len(codepoints) : InRange(codepoints[k], 0, kUnicodeMaxCodepoint)

(***************************************************************************)
(* C23.  A captured parenthesized group keeps its original textual form:   *)
(* re-tokenizing the text the parser captured for a balanced group (in     *)
(* raw_expression, required_terms or excluded_terms) yields the token      *)
(* sequence of the group, so the two terms of `(a b)` remain two terms.    *)
(* Stated for the inputs that are one balanced group, bare or after one    *)
(* '+' or '-'.                                                             *)
(***************************************************************************)
\* The index of the token that closes the group opened at toks[i], 0 when
\* the group is not closed.
RECURSIVE GroupEnd(_, _, _)
GroupEnd(toks, i, depth) ==
    IF i > Len(toks) THEN 0
    ELSE LET d == IF toks[i].type = "LParen" THEN depth + 1
                  ELSE IF toks[i].type = "RParen" THEN depth - 1 ELSE depth
         IN  IF d = 0 THEN i ELSE GroupEnd(toks, i + 1, d)

IsGroup(toks) ==
    /\ toks # <<>>
    /\ toks[1].type = "LParen"
    /\ GroupEnd(toks, 1, 0) = Len(toks)

IsPrefixedGroup(toks, prefix) ==
    /\ toks # <<>>
    /\ toks[1].type = prefix
    /\ IsGroup(Tail(toks))

C23_CapturedGroupKeepsItsTokens ==
    Succeeded =>
        LET toks == Tokens(input) IN
        /\ IsGroup(toks) => Tokens(expr.raw_expression) = toks
        /\ IsPrefixedGroup(toks, "Plus") =>
               /\ Len(expr.required_terms) = 1
               /\ Tokens(expr.required_terms[1]) = Tail(toks)
        /\ IsPrefixedGroup(toks, "Minus") =>
               /\ Len(expr.excluded_terms) = 1
               /\ Tokens(expr.excluded_terms[1]) = Tail(toks)

(***************************************************************************)
(* C24.  After every successful parse raw_expression is the captured       *)
(* sub-expressions, each non-empty, joined by single spaces: it is empty,  *)
(* or it has no leading space, no trailing space and no separator that is  *)
(* not followed by a captured sub-expression.                              *)
(***************************************************************************)
\* Two spaces in a row outside every group.  Inside a group the capture
\* itself may write them (two OR tokens), and a text with a quoted term may
\* hold them inside the quotes: such a text is not judged.
HasEmptyPiece(raw) ==
    /\ \A i \in 1..Len(raw) : raw[i] # "\""
    /\ \E i \in 1..(Len(raw) - 1) :
           /\ raw[i] = " "
           /\ raw[i + 1] = " "
           /\ ParenDepth(SubSeq(raw, 1, i), 1, 0) = 0

IsJoinOfCaptures(raw) ==
    \/ raw = <<>>
    \/ /\ raw[1] # " "
       /\ raw[Len(raw)] # " "
       /\ ~HasEmptyPiece(raw)

C24_RawExpressionIsJoinOfCaptures == Succeeded => IsJoinOfCaptures(expr.raw_expression)

(***************************************************************************)
(* C25.  With ascii_n >= 1 and kanji_n >= 1 the output of                  *)
(* GenerateHybridNgrams is exactly, in increasing start offset i over the  *)
(* decoded codepoints, the window of size kanji_n at i when codepoint i is *)
(* in one of the ranges 4E00-9FFF, 3400-4DBF, 20000-2A6DF, 2A700-2B73F,    *)
(* 2B740-2B81F, F900-FAFF and the window of size ascii_n at i otherwise,   *)
(* emitted only if the window fits in the text and all its codepoints have *)
(* the class of codepoint i; Hiragana and Katakana count as non-CJK; at    *)
(* most one window is emitted per offset.                                  *)
(***************************************************************************)
InFixedCjkRanges(c) ==
    \/ InRange(c, 19968, 40959)
    \/ InRange(c, 13312, 19903)
    \/ InRange(c, 131072, 173791)
    \/ InRange(c, 173824, 177983)
    \/ InRange(c, 177984, 178207)
    \/ InRange(c, 63744, 64255)

\* The size of the window attempted at offset i (0-based).
WindowSize(cps, i, ascii_n, kanji_n) ==
    IF InFixedCjkRanges(cps[i + 1]) THEN kanji_n ELSE ascii_n

IsEmitted(cps, i, ascii_n, kanji_n) ==
    LET size == WindowSize(cps, i, ascii_n, kanji_n) IN
    /\ i + size <= Len(cps)
    /\ \A j \in 0..(size - 1) :
           InFixedCjkRanges(cps[i + j + 1]) = InFixedCjkRanges(cps[i + 1])

\* The windows of the offsets i, i + 1, ..., in that order.
RECURSIVE WindowsFrom(_, _, _, _)
WindowsFrom(cps, i, ascii_n, kanji_n) ==
    IF i >= Len(cps) THEN <<>>
    ELSE (IF IsEmitted(cps, i, ascii_n, kanji_n)
          THEN << SubSeq(cps, i + 1, i + WindowSize(cps, i, ascii_n, kanji_n)) >>
          ELSE <<>>) \o WindowsFrom(cps, i + 1, ascii_n, kanji_n)

C25_HybridWindowsPerOffset ==
    (pc = "hybrid" /\ ascii_ngram_size >= 1 /\ kanji_ngram_size >= 1) =>
        /\ thrown = ""
        /\ ngram_codepoints =
               WindowsFrom(codepoints, 0, ascii_ngram_size, kanji_ngram_size)
        /\ Len(ngrams) = Len(ngram_codepoints)
        /\ \A k \in 1..Len(ngrams) : ngrams[k] = CodepointsToUtf8(ngram_codepoints[k])

\* a, U+3042, U+6F22 with ascii_n = 2 and kanji_n = 1: the windows at
\* offsets 0 and 2; the window at offset 1 would mix the classes.
C25_Witness ==
    /\ pc = "hybrid"
    /\ arg_text = <<97, 227, 129, 130, 230, 188, 162>>
    /\ ascii_ngram_size = 2
    /\ kanji_ngram_size = 1
    /\ ngrams = << <<97, 227, 129, 130>>, <<230, 188, 162>> >>

(***************************************************************************)
(* The tokenizer alone: Next() called on a Tokenizer until it returns End. *)
(* Inputs are the strings of at most MaxLex lexical chunks and the words   *)
(* ORDER, FOR and or.                                                      *)
(*   pc = "start"  the Tokenizer was constructed (pos_ = 0)                *)
(*        "token"  Next() returned current, a token other than End; the    *)
(*                 cursor was at last_pos before the call and is at pos    *)
(*        "end"    Next() returned End                                     *)
(***************************************************************************)
LexChunks ==
    { <<"a">>, <<"O", "R">>, <<"o", "r">>, <<" ">>, <<"-">>, <<"(">>, <<"\"">>,
      FullWidthSpace }

LexExamples ==
    { <<"O", "R", "D", "E", "R">>, <<"F", "O", "R">>, <<"o", "r">> }

LexInputs == Concats(LexChunks, MaxLex) \cup LexExamples

InitTokens ==
    /\ input \in LexInputs
    /\ pc = "start"
    /\ pos = 0
    /\ current = Token("End", <<>>)
    /\ last_pos = 0
    /\ expr = EmptyExpr
    /\ err = ""
    /\ query = <<>>
    /\ NoCall /\ NoUtil /\ NoClient

TokenizerNext ==
    /\ pc \in { "start", "token" }
    /\ \E n \in { TokNext(input, pos) } :
           /\ current' = n.tok
           /\ pos' = n.pos
           /\ pc' = IF n.tok.type = "End" THEN "end" ELSE "token"
    /\ last_pos' = pos
    /\ UNCHANGED <<input, expr, err, query>>
    /\ UNCHANGED <<callVars, utilVars, clientVars>>

NextTokens == TokenizerNext

SpecTokens == InitTokens /\ [][NextTokens]_vars

(***************************************************************************)
(* C26.  The tokenizer returns an Or token exactly when, at the start of a *)
(* token, the next two bytes are "OR" and the byte before (if any) and the *)
(* byte after (if any) are not ASCII alphanumeric; in every other case the *)
(* letters belong to a bare term (ORDER, FOR and or are Term tokens), and  *)
(* a bare term extends up to, not including, the next whitespace,          *)
(* full-width space, '+', '-', '(', ')' or '"'.                            *)
(***************************************************************************)
\* The 0-based offset at which the token returned last starts.
TokenStart == SkipWhitespace(input, last_pos)

\* The two letters at offset s are a whole word.
WholeWordOrAt(s) ==
    /\ s + 2 <= Len(input)
    /\ SubSeq(input, s + 1, s + 2) = <<"O", "R">>
    /\ s > 0 => input[s] \notin AlnumBytes
    /\ s + 2 < Len(input) => input[s + 3] \notin AlnumBytes

\* A bare term ends before the byte at offset p.
TermEndsAt(p) ==
    \/ input[p + 1] \in { " ", "\t", "\n", "\r", "+", "-", "(", ")", "\"" }
    \/ /\ p + 3 <= Len(input)
       /\ SubSeq(input, p + 1, p + 3) = FullWidthSpace

C26_OrIsWholeWord ==
    pc = "token" =>
        LET s == TokenStart IN
        /\ current.type = "Or" <=> WholeWordOrAt(s)
        /\ current.type = "Or" => pos = s + 2
        /\ (~WholeWordOrAt(s) /\ input[s + 1] \notin { "+", "-", "(", ")", "\"" }) =>
               /\ current.type = "Term"
               /\ pos > s
               /\ current.value = SubSeq(input, s + 1, pos)
               /\ \A p \in s..(pos - 1) : ~TermEndsAt(p)
               /\ pos < Len(input) => TermEndsAt(pos)
        /\ input \in LexExamples => current = Token("Term", input)

\* aOR OR: the second token, the whole word, after the term aOR.
C26_Witness ==
    /\ pc = "token"
    /\ input = <<"a", "O", "R", " ", "O", "R">>
    /\ last_pos = 3
    /\ current.type = "Or"
    /\ pos = 6

(***************************************************************************)
(* C27.  A quoted term is stored with its surrounding quote characters:    *)
(* for a quoted token whose content is c (the bytes between the quotes,    *)
(* each backslash-escaped byte replaced by the byte itself, running to the *)
(* end of input if the closing quote is missing), the entry appended to    *)
(* required_terms, excluded_terms or the captured raw text is exactly      *)
(* '"' + c + '"', whether the term is bare, prefixed with '+' or '-',      *)
(* inside a group or in an OR chain.  Stated for the inputs with one       *)
(* quoted term in one of these places.                                     *)
(***************************************************************************)
\* The content of the quoted term whose bytes start at str[i].
RECURSIVE ContentFrom(_, _)
ContentFrom(str, i) ==
    IF i > Len(str) \/ str[i] = "\"" THEN <<>>
    ELSE IF str[i] = "\\" /\ i < Len(str)
         THEN <<str[i + 1]>> \o ContentFrom(str, i + 2)
         ELSE <<str[i]>> \o ContentFrom(str, i + 1)

\* The content of the first quoted term of str.
FirstContent(str) ==
    LET q == CHOOSE i \in 1..Len(str) :
                 str[i] = "\"" /\ \A j \in 1..(i - 1) : str[j] # "\""
    IN  ContentFrom(str, q + 1)

WithQuotes(c) == <<"\"">> \o c \o <<"\"">>

TypesOf(toks) == [k \in 1..Len(toks) |-> toks[k].type]

C27_QuotedTermKeepsItsQuotes ==
    Succeeded =>
        LET toks == Tokens(input)
            types == TypesOf(toks)
            stored == WithQuotes(FirstContent(input))
        IN  /\ types = <<"QuotedTerm">> => expr.required_terms = <<stored>>
            /\ types = <<"Plus", "QuotedTerm">> => expr.required_terms = <<stored>>
            /\ types = <<"Minus", "QuotedTerm">> => expr.excluded_terms = <<stored>>
            /\ types = <<"LParen", "QuotedTerm", "RParen">> =>
                   expr.raw_expression = <<"(">> \o stored \o <<")">>
            /\ types = <<"Term", "Or", "QuotedTerm">> =>
                   expr.raw_expression = toks[1].value \o <<" ", "O", "R", " ">> \o stored
            /\ types = <<"QuotedTerm", "Or", "Term">> =>
                   expr.raw_expression = stored \o <<" ", "O", "R", " ">> \o toks[3].value

\* a OR "\"(": the content is the two bytes "( .
C27_Witness ==
    /\ pc = "parsed"
    /\ input = <<"a", " ", "O", "R", " ", "\"", "\\", "\"", "(", "\"">>
    /\ expr.raw_expression = <<"a", " ", "O", "R", " ", "\"", "\"", "(", "\"">>

(***************************************************************************)
(* C28.  No term is silently dropped: whenever ParseSearchExpression       *)
(* succeeds, each bare or quoted term token of the input appears in        *)
(* required_terms, in excluded_terms or inside raw_expression; a term      *)
(* followed by an OR that lacks a valid right-hand operand (python OR,     *)
(* a OR +b) is kept or the parse fails.                                    *)
(***************************************************************************)
\* The text is an entry, or a part of an entry, of e.
IsKept(text, e) ==
    \/ Find(e.raw_expression, text)
    \/ \E k \in 1..Len(e.required_terms) : Find(e.required_terms[k], text)
    \/ \E k \in 1..Len(e.excluded_terms) : Find(e.excluded_terms[k], text)

C28_NoTermIsDropped ==
    Succeeded =>
        LET toks == Tokens(input) IN
        \A k \in 1..Len(toks) :
            toks[k].type \in { "Term", "QuotedTerm" } => IsKept(TermText(toks[k]), expr)

(***************************************************************************)
(* One call of ParseSearchExpression that is not left unfinished: the      *)
(* thread that runs it keeps running, so a step that can be taken is       *)
(* taken.                                                                  *)
(***************************************************************************)
\* Every text of fewer than MaxPieces pieces, and the examples.
LiveInputs ==
    Concats(Pieces, MaxPieces - 1) \cup DocExamples \cup QuotedParens \cup DanglingOrs
        \cup { ExAndThenOr, ExOrThenAnd, ExFortran }

InitLive ==
    /\ input \in LiveInputs
    /\ pc = "start"
    /\ pos = 0
    /\ current = Token("End", <<>>)
    /\ last_pos = 0
    /\ expr = EmptyExpr
    /\ err = ""
    /\ query = <<>>
    /\ NoCall /\ NoUtil /\ NoClient

SpecLive == InitLive /\ [][Next]_vars /\ WF_vars(Next)

(***************************************************************************)
(* C29.  Parsing always terminates: every Tokenizer::Next() call returns   *)
(* End or advances the cursor by at least one byte (a Term token is never  *)
(* empty), the one-token lookahead restores the cursor and the current     *)
(* token exactly, every iteration of the parser's top-level loop (the      *)
(* capture loops run inside it) consumes at least one token or returns, so *)
(* ParseSearchExpression finishes for every finite input; likewise         *)
(* Utf8ToCodepoints advances by at least one byte per step.                *)
(***************************************************************************)
\* Next() called with the cursor at any offset of the input.
NextAdvances ==
    \A p \in 0..Len(input) :
        LET n == TokNext(input, p) IN
        \/ n.tok.type = "End"
        \/ /\ n.pos > p
           /\ n.tok.type = "Term" => n.tok.value # <<>>

LookaheadRestores ==
    (pc = "parsing" /\ current.type \in { "Term", "QuotedTerm" }) =>
        LET l == LooksLikeOrExpression(input, PS) IN
        /\ l.ps.pos = pos
        /\ l.ps.current = current

\* The tokens not yet consumed: the current one and those after the cursor.
Remaining(cur, p) ==
    (IF cur.type = "End" THEN 0 ELSE 1) + Len(TokensFrom(input, p))

IterationConsumes ==
    (pc = "parsing" /\ pc' = "parsing") => Remaining(current', pos') < Remaining(current, pos)

\* The lead bytes at the ends of each class of Utf8CharLength.
LeadBytes == { 0, 127, 128, 191, 192, 223, 224, 239, 240, 247, 248, 255 }

DecoderAdvances == \A b \in LeadBytes : Utf8CharLength(b) >= 1

Finished == pc \in { "parsed", "error" }

C29_ParsingTerminates ==
    /\ [](NextAdvances /\ LookaheadRestores /\ DecoderAdvances)
    /\ [][IterationConsumes]_vars
    /\ <>Finished

\* The longest example of the header, parsed to its end in three iterations.
C29_Witness ==
    /\ pc = "parsed"
    /\ input = ExGroup
    /\ current.type = "End"
    /\ pos = Len(input)

(***************************************************************************)
(* MygramClient with a server that may close the connection: after the     *)
(* close no command is answered, the bytes already sent still arrive, and  *)
(* a recv() with nothing left to read returns 0.                           *)
(***************************************************************************)
ServerClose ==
    /\ IsConnected
    /\ ~peer_closed
    /\ peer_closed' = TRUE
    /\ outgoing' = <<>>
    /\ UNCHANGED <<parserVars, callVars, utilVars, sock_, incoming, last_call, calls>>

\* Mutant: the call that finds the connection closed disconnects the client.
ReceiveClosed_Disconnects(t) ==
    /\ calls[t].pc = "recv"
    /\ incoming = <<>>
    /\ peer_closed
    /\ sock_' = -1
    /\ peer_closed' = FALSE
    /\ calls' = [calls EXCEPT ![t] =
                     [@ EXCEPT !.pc = "returned", !.ok = FALSE,
                               !.error = "Connection closed by server"]]
    /\ UNCHANGED <<parserVars, callVars, utilVars, outgoing, incoming, last_call>>

\* recv() returns 0: SendCommand returns kClientConnectionClosed.
ReceiveClosed(t) ==
    /\ calls[t].pc = "recv"
    /\ incoming = <<>>
    /\ peer_closed
    /\ calls' = [calls EXCEPT ![t] =
                     [@ EXCEPT !.pc = "returned", !.ok = FALSE,
                               !.error = "Connection closed by server"]]
    /\ UNCHANGED <<parserVars, callVars, utilVars, sock_, outgoing, incoming, peer_closed,
                   last_call>>

NextConnection ==
    \/ Connect
    \/ Disconnect
    \/ \E t \in Threads : SendCommand(t)
    \/ \E t \in Threads : Receive(t)
    \/ \E t \in Threads : ReceiveTimeout(t)
    \/ \E t \in Threads : ReceiveClosed(t)
    \/ ServerRespond
    \/ ServerClose

SpecConnection == InitClient /\ [][NextConnection]_vars

\* A step of SendCommand by some thread, from its first line to its return.
SendCommandStep ==
    \E t \in Threads :
        SendCommand(t) \/ Receive(t) \/ ReceiveTimeout(t) \/ ReceiveClosed(t)

\* IsConnected() after the last call of Connect or Disconnect.
ConnectedSinceConnect ==
    IsConnected <=>
        (last_call.op = "Connect" /\ last_call.error \in { "", "Already connected" })

ConnectOnConnected ==
    (IsConnected /\ Connect) =>
        /\ last_call'.error = "Already connected"
        /\ UNCHANGED <<sock_, outgoing, incoming, peer_closed, calls>>

FailedConnect ==
    (Connect /\ last_call'.error \in ConnectOutcomes \ { "" }) =>
        (~IsConnected /\ sock_' = -1)

DisconnectTwice ==
    (~IsConnected /\ Disconnect) => UNCHANGED <<sock_, outgoing, incoming, peer_closed, calls>>

SendOnDisconnected ==
    \A t \in Threads :
        (~IsConnected /\ SendCommand(t)) =>
            /\ calls'[t].pc = "returned"
            /\ ~calls'[t].ok
            /\ calls'[t].error = "Not connected"
            /\ outgoing' = outgoing

SendKeepsConnection == SendCommandStep => sock_' = sock_

(***************************************************************************)
(* C30.  Over any sequence of Connect, Disconnect and SendCommand calls:   *)
(* IsConnected() is true exactly from a successful Connect until the next  *)
(* Disconnect; a failed Connect leaves the client disconnected; Connect on *)
(* a connected client fails with the already-connected error and leaves    *)
(* the connection intact; Disconnect is idempotent; SendCommand on a       *)
(* disconnected client fails with the not-connected error without sending; *)
(* and SendCommand never changes the connection state, even when it fails  *)
(* because the server closed the connection.                               *)
(***************************************************************************)
C30_ConnectionState ==
    /\ []ConnectedSinceConnect
    /\ [][/\ ConnectOnConnected
          /\ FailedConnect
          /\ DisconnectTwice
          /\ SendOnDisconnected
          /\ SendKeepsConnection]_vars

\* A SendCommand has failed because the server closed the connection, and
\* the client, connected by a Connect that found it connected already, still
\* says it is connected.
C30_Witness ==
    /\ IsConnected
    /\ peer_closed
    /\ last_call = [op |-> "Connect", error |-> "Already connected"]
    /\ calls["t1"].pc = "returned"
    /\ calls["t1"].error = "Connection closed by server"
    /\ calls["t2"].error = "Not connected"

====
